---- MODULE Spec2Model ----
(***************************************************************************)
(* A model of tmc/tmpl: the render operation (main.go tmpl), the directory *)
(* pipeline (runDir, extractTar) and parts of the function library of the  *)
(* sprig package.                                                          *)
(*                                                                         *)
(* Text is modelled as a sequence of units.  A unit is one character ("a", *)
(* "/", "<") or one lexical item of the template language ("{{.K1}}"),     *)
(* which the lexer of text/template reads as a whole.                      *)
(***************************************************************************)
EXTENDS Integers, Sequences, FiniteSets, TLC

VARIABLES
    mode,       \* which entry point of the program this behaviour exercises
    pc,         \* position of the running operation
    ctx,        \* the context: envMap(), a map[string]string
    htmlMode,   \* flagHTML
    tin,        \* tmpl: the template source handed to tmpl as `in`
    tinErr,     \* tmpl: TRUE when reading `in` fails (io.ReadAll error)
    tout,       \* tmpl: the bytes written to `out`
    terr,       \* tmpl: the error tmpl returned ("nil" when none)
    input,      \* run: the input source (flagInput)
    dir,        \* runDir: the root of the walk (flagRecursive)
    tree,       \* runDir: the input file system, path -> entry
    outPath,    \* runDir: the output destination (flagOutput)
    stripN,     \* runDir: flagStripN
    walk,       \* runDir: the paths filepath.Walk has still to visit
    handles,    \* runDir: the input files that are open
    buf,        \* runDir: the records the tar writer has put into buf
    stderr,     \* the paths tmplStr reported an issue for on os.Stderr
    stdout,     \* the records copied to os.Stdout
    rd,         \* extractTar: the record tarReader.Next() returns next
    fsOut,      \* the file system extractTar writes to, path -> node
    rerr,       \* the error runDir returned
    fn,         \* hermetic render: the registry name of the function called
    arg,        \* hermetic render: the size of the argument handed to fn
    world1,     \* hermetic render: what the first run finds outside itself
    world2,     \* hermetic render: what the second run finds outside itself
    out1,       \* hermetic render: the output of the first run
    out2,       \* hermetic render: the output of the second run
    heap,       \* merge: the maps of the template run, reference -> map
    heap0,      \* merge: the heap as it was when merge was called
    dst,        \* merge: the reference passed as dst
    srcs,       \* merge: the references passed as srcs
    ret,        \* merge: what the call returned
    list,       \* slice: the value passed as list
    indices,    \* slice: the values passed as indices
    sres,       \* slice: what the call returned, or that it panicked
    lfn,        \* library call: the function of the registry that is called
    largs,      \* library call: the arguments of the call
    lres,       \* library call: what the call returned, or that it failed
    cheap,      \* deepCopy: the slices and maps of the run, address -> object
    orig,       \* deepCopy: the value v handed to deepCopy
    copy,       \* deepCopy: the value c it returned
    before,     \* deepCopy: the heap before the last assignment
    side        \* deepCopy: the value the last assignment went through

tmplVars == <<tin, tinErr, tout, terr, input>>
dirVars == <<dir, tree, outPath, stripN, walk, handles, buf, stderr, stdout,
             rd, fsOut, rerr>>
hermVars == <<fn, arg, world1, world2, out1, out2>>
mergeVars == <<heap, heap0, dst, srcs, ret>>
sliceVars == <<list, indices, sres>>
callVars == <<lfn, largs, lres>>
copyVars == <<cheap, orig, copy, before, side>>
libVars == <<hermVars, mergeVars, sliceVars, callVars, copyVars>>
vars == <<mode, pc, ctx, htmlMode, tin, tinErr, tout, terr, input,
          dir, tree, outPath, stripN, walk, handles, buf, stderr, stdout,
          rd, fsOut, rerr, libVars>>

----------------------------------------------------------------------------
(* Bounds *)

MaxTmplLen == 3      \* longest template source explored by SpecTmpl
MaxFiles == 2        \* most files (other than directories) under the root
MaxStripN == 2       \* largest -stripn explored

----------------------------------------------------------------------------
(* Generic helpers on sequences *)

RECURSIVE Flatten(_)
Flatten(ss) == IF ss = <<>> THEN <<>> ELSE Head(ss) \o Flatten(Tail(ss))

Range(s) == { s[i] : i \in 1..Len(s) }

SeqsUpTo(S, n) == UNION { [1..k -> S] : k \in 0..n }

Min2(a, b) == IF a <= b THEN a ELSE b

\* The decimal digits, as characters of a string.
DigitChars == <<"0", "1", "2", "3", "4", "5", "6", "7", "8", "9">>

IsDigit(ch) == ch \in Range(DigitChars)

DigitVal(ch) == CHOOSE n \in 0..9 : DigitChars[n + 1] = ch

----------------------------------------------------------------------------
(* The context and the template language *)

Keys == {"K1", "K2"}

\* The values an environment variable takes in the model.
Vals == { <<>>, <<"a">>, <<"<">>, <<"b", "/">> }

\* Byte order of the units that occur in map keys (range visits a map in
\* sorted key order).
KeyRank(k) == IF k = "K1" THEN 1 ELSE 2

SortedKeys(m) ==
    LET ks == DOMAIN m
    IN  IF ks = {} THEN <<>>
        ELSE IF Cardinality(ks) = 1 THEN << CHOOSE k \in ks : TRUE >>
        ELSE << CHOOSE k \in ks : \A j \in ks : KeyRank(k) <= KeyRank(j),
                CHOOSE k \in ks : \A j \in ks : KeyRank(k) >= KeyRank(j) >>

----------------------------------------------------------------------------
(* The function registry (package sprig) *)

\* genericFuncMap: template function name -> the implementation bound to it.
\* An implementation is named by its Go identifier; a function literal is
\* named by the line of the table that holds it.
genericFuncMap ==
       "hello" :> "func:156"
       @@ "ago" :> "dateAgo"
       @@ "date" :> "date"
       @@ "date_in_zone" :> "dateInZone"
       @@ "date_modify" :> "dateModify"
       @@ "dateInZone" :> "dateInZone"
       @@ "dateModify" :> "dateModify"
       @@ "duration" :> "duration"
       @@ "durationRound" :> "durationRound"
       @@ "htmlDate" :> "htmlDate"
       @@ "htmlDateInZone" :> "htmlDateInZone"
       @@ "must_date_modify" :> "mustDateModify"
       @@ "mustDateModify" :> "mustDateModify"
       @@ "mustToDate" :> "mustToDate"
       @@ "now" :> "time.Now"
       @@ "toDate" :> "toDate"
       @@ "unixEpoch" :> "unixEpoch"
       @@ "abbrev" :> "abbrev"
       @@ "abbrevboth" :> "abbrevboth"
       @@ "trunc" :> "trunc"
       @@ "trim" :> "strings.TrimSpace"
       @@ "upper" :> "strings.ToUpper"
       @@ "lower" :> "strings.ToLower"
       @@ "title" :> "titleFunc"
       @@ "untitle" :> "untitle"
       @@ "substr" :> "substring"
       @@ "repeat" :> "func:186"
       @@ "trimall" :> "func:187"
       @@ "trimAll" :> "func:188"
       @@ "trimSuffix" :> "func:189"
       @@ "trimPrefix" :> "func:190"
       @@ "nospace" :> "deleteWhiteSpace"
       @@ "initials" :> "initials"
       @@ "randAlphaNum" :> "randAlphaNumeric"
       @@ "randAlpha" :> "randAlpha"
       @@ "randAscii" :> "randAscii"
       @@ "randNumeric" :> "randNumeric"
       @@ "swapcase" :> "swapCase"
       @@ "shuffle" :> "shuffle"
       @@ "snakecase" :> "toSnakeCase"
       @@ "camelcase" :> "toPascalCase"
       @@ "kebabcase" :> "toKebabCase"
       @@ "wrap" :> "func:202"
       @@ "wrapWith" :> "func:203"
       @@ "contains" :> "func:204"
       @@ "hasPrefix" :> "func:205"
       @@ "hasSuffix" :> "func:206"
       @@ "quote" :> "quote"
       @@ "squote" :> "squote"
       @@ "cat" :> "cat"
       @@ "indent" :> "indent"
       @@ "nindent" :> "nindent"
       @@ "replace" :> "replace"
       @@ "plural" :> "plural"
       @@ "toString" :> "strval"
       @@ "sha1sum" :> "sha1sum"
       @@ "sha256sum" :> "sha256sum"
       @@ "sha512sum" :> "sha512sum"
       @@ "adler32sum" :> "adler32sum"
       @@ "md5sum" :> "md5sum"
       @@ "atoi" :> "func:224"
       @@ "int64" :> "toInt64"
       @@ "int" :> "toInt"
       @@ "toInt" :> "toInt"
       @@ "float64" :> "toFloat64"
       @@ "seq" :> "seq"
       @@ "toDecimal" :> "toDecimal"
       @@ "split" :> "split"
       @@ "splitList" :> "func:234"
       @@ "splitn" :> "splitn"
       @@ "toStrings" :> "strslice"
       @@ "until" :> "until"
       @@ "untilStep" :> "untilStep"
       @@ "add1" :> "func:243"
       @@ "add" :> "func:244"
       @@ "sub" :> "func:251"
       @@ "div" :> "func:252"
       @@ "mod" :> "func:259"
       @@ "mul" :> "mul"
       @@ "randInt" :> "func:267"
       @@ "add1f" :> "add1f"
       @@ "addf" :> "addf"
       @@ "subf" :> "subf"
       @@ "divf" :> "divf"
       @@ "mulf" :> "mulf"
       @@ "biggest" :> "max"
       @@ "max" :> "max"
       @@ "min" :> "min"
       @@ "maxf" :> "maxf"
       @@ "minf" :> "minf"
       @@ "ceil" :> "ceil"
       @@ "floor" :> "floor"
       @@ "round" :> "round"
       @@ "join" :> "join"
       @@ "sortAlpha" :> "sortAlpha"
       @@ "default" :> "dfault"
       @@ "empty" :> "empty"
       @@ "coalesce" :> "coalesce"
       @@ "all" :> "all"
       @@ "any" :> "any"
       @@ "compact" :> "compact"
       @@ "mustCompact" :> "mustCompact"
       @@ "fromJson" :> "fromJson"
       @@ "toJson" :> "toJson"
       @@ "toPrettyJson" :> "toPrettyJson"
       @@ "toRawJson" :> "toRawJson"
       @@ "mustFromJson" :> "mustFromJson"
       @@ "mustToJson" :> "mustToJson"
       @@ "mustToPrettyJson" :> "mustToPrettyJson"
       @@ "mustToRawJson" :> "mustToRawJson"
       @@ "fromYaml" :> "fromYaml"
       @@ "toYaml" :> "toYaml"
       @@ "mustFromYaml" :> "mustFromYaml"
       @@ "mustToYaml" :> "mustToYaml"
       @@ "ternary" :> "ternary"
       @@ "deepCopy" :> "deepCopy"
       @@ "mustDeepCopy" :> "mustDeepCopy"
       @@ "typeOf" :> "typeOf"
       @@ "typeIs" :> "typeIs"
       @@ "typeIsLike" :> "typeIsLike"
       @@ "kindOf" :> "kindOf"
       @@ "kindIs" :> "kindIs"
       @@ "deepEqual" :> "reflect.DeepEqual"
       @@ "env" :> "os.Getenv"
       @@ "expandenv" :> "os.ExpandEnv"
       @@ "getHostByName" :> "getHostByName"
       @@ "base" :> "path.Base"
       @@ "dir" :> "path.Dir"
       @@ "clean" :> "path.Clean"
       @@ "ext" :> "path.Ext"
       @@ "isAbs" :> "path.IsAbs"
       @@ "osBase" :> "filepath.Base"
       @@ "osClean" :> "filepath.Clean"
       @@ "osDir" :> "filepath.Dir"
       @@ "osExt" :> "filepath.Ext"
       @@ "osIsAbs" :> "filepath.IsAbs"
       @@ "b64enc" :> "base64encode"
       @@ "b64dec" :> "base64decode"
       @@ "b32enc" :> "base32encode"
       @@ "b32dec" :> "base32decode"
       @@ "tuple" :> "list"
       @@ "list" :> "list"
       @@ "dict" :> "dict"
       @@ "get" :> "get"
       @@ "set" :> "set"
       @@ "unset" :> "unset"
       @@ "hasKey" :> "hasKey"
       @@ "pluck" :> "pluck"
       @@ "keys" :> "keys"
       @@ "pick" :> "pick"
       @@ "omit" :> "omit"
       @@ "merge" :> "merge"
       @@ "mergeOverwrite" :> "mergeOverwrite"
       @@ "mustMerge" :> "mustMerge"
       @@ "mustMergeOverwrite" :> "mustMergeOverwrite"
       @@ "values" :> "values"
       @@ "append" :> "push"
       @@ "push" :> "push"
       @@ "mustAppend" :> "mustPush"
       @@ "mustPush" :> "mustPush"
       @@ "prepend" :> "prepend"
       @@ "mustPrepend" :> "mustPrepend"
       @@ "first" :> "first"
       @@ "mustFirst" :> "mustFirst"
       @@ "rest" :> "rest"
       @@ "mustRest" :> "mustRest"
       @@ "last" :> "last"
       @@ "mustLast" :> "mustLast"
       @@ "initial" :> "initial"
       @@ "mustInitial" :> "mustInitial"
       @@ "reverse" :> "reverse"
       @@ "mustReverse" :> "mustReverse"
       @@ "uniq" :> "uniq"
       @@ "mustUniq" :> "mustUniq"
       @@ "without" :> "without"
       @@ "mustWithout" :> "mustWithout"
       @@ "has" :> "has"
       @@ "mustHas" :> "mustHas"
       @@ "slice" :> "slice"
       @@ "mustSlice" :> "mustSlice"
       @@ "concat" :> "concat"
       @@ "dig" :> "dig"
       @@ "chunk" :> "chunk"
       @@ "mustChunk" :> "mustChunk"
       @@ "bcrypt" :> "bcrypt"
       @@ "htpasswd" :> "htpasswd"
       @@ "genPrivateKey" :> "generatePrivateKey"
       @@ "derivePassword" :> "derivePassword"
       @@ "buildCustomCert" :> "buildCustomCertificate"
       @@ "genCA" :> "generateCertificateAuthority"
       @@ "genCAWithKey" :> "generateCertificateAuthorityWithPEMKey"
       @@ "genSelfSignedCert" :> "generateSelfSignedCertificate"
       @@ "genSelfSignedCertWithKey" :> "generateSelfSignedCertificateWithPEMKey"
       @@ "genSignedCert" :> "generateSignedCertificate"
       @@ "genSignedCertWithKey" :> "generateSignedCertificateWithPEMKey"
       @@ "encryptAES" :> "encryptAES"
       @@ "decryptAES" :> "decryptAES"
       @@ "randBytes" :> "randBytes"
       @@ "addPEMHeader" :> "addPEMHeader"
       @@ "uuidv4" :> "uuidv4"
       @@ "semver" :> "semverFunc"
       @@ "semverCompare" :> "semverCompare"
       @@ "eq" :> "eq"
       @@ "ne" :> "ne"
       @@ "lt" :> "lt"
       @@ "le" :> "le"
       @@ "gt" :> "gt"
       @@ "ge" :> "ge"
       @@ "len" :> "length"
       @@ "fail" :> "func:423"
       @@ "regexMatch" :> "regexMatch"
       @@ "mustRegexMatch" :> "mustRegexMatch"
       @@ "regexFindAll" :> "regexFindAll"
       @@ "mustRegexFindAll" :> "mustRegexFindAll"
       @@ "regexFind" :> "regexFind"
       @@ "mustRegexFind" :> "mustRegexFind"
       @@ "regexReplaceAll" :> "regexReplaceAll"
       @@ "mustRegexReplaceAll" :> "mustRegexReplaceAll"
       @@ "regexReplaceAllLiteral" :> "regexReplaceAllLiteral"
       @@ "mustRegexReplaceAllLiteral" :> "mustRegexReplaceAllLiteral"
       @@ "regexSplit" :> "regexSplit"
       @@ "mustRegexSplit" :> "mustRegexSplit"
       @@ "regexQuoteMeta" :> "regexQuoteMeta"
       @@ "urlParse" :> "urlParse"
       @@ "urlJoin" :> "urlJoin"

\* The names hermeticFuncMap deletes from the full table.
nonHermetic ==
    { "now", "date", "dateInZone", "dateModify", "ago", "toDate", "unixEpoch",
      "htmlDate", "htmlDateInZone", "duration", "durationRound",
      "randAlpha", "randAlphaNum", "randNumeric", "randAscii", "uuidv4",
      "randBytes", "env", "expandenv" }

hermeticFuncMap ==
    [ n \in (DOMAIN genericFuncMap) \ nonHermetic |-> genericFuncMap[n] ]

TxtFuncMap == genericFuncMap
HtmlFuncMap == genericFuncMap
HermeticTxtFuncMap == hermeticFuncMap
HermeticHtmlFuncMap == hermeticFuncMap

----------------------------------------------------------------------------
(* The render operation *)

\* Characters that occur literally in a template source or a file name.
LitUnits == {"a", "b", "/", "."}

\* Lexical items of the template language, each read as a whole:
\*   {{.K}}         the value of key K of the context
\*   {{.K|upper}}   the same, piped through the function upper
\*   {{range}}      {{range $k, $v := .}}{{$k}}={{$v}};{{end}}
\*   {{fail}}       {{fail "x"}}: a function call that returns an error
\*   {{nofn}}       a call of a function that no table defines
\*   {{             an action that is never closed
FieldUnits == { "{{.K1}}", "{{.K2}}", "{{.K1|upper}}" }
ActionUnits == FieldUnits \cup { "{{range}}", "{{fail}}", "{{nofn}}", "{{" }

FieldKey(u) == IF u = "{{.K2}}" THEN "K2" ELSE "K1"

\* The function an action calls ("" when it calls none).
ActionFunc(u) ==
    CASE u = "{{.K1|upper}}" -> "upper"
      [] u = "{{fail}}"      -> "fail"
      [] u = "{{nofn}}"      -> "nofn"
      [] OTHER               -> ""

\* strings.ToUpper, unit by unit.
ToUpperUnit(u) ==
    CASE u = "a" -> "A"
      [] u = "b" -> "B"
      [] OTHER   -> u

ToUpper(s) == [ i \in 1..Len(s) |-> ToUpperUnit(s[i]) ]

\* The escaper html/template appends to every action in element content.
HtmlEscapeUnit(u) ==
    CASE u = "<" -> "&lt;"
      [] OTHER   -> u

HtmlEscape(s) == [ i \in 1..Len(s) |-> HtmlEscapeUnit(s[i]) ]

\* Calling the implementation a name is bound to, on a string.
CallStr(impl, s) ==
    CASE impl = "strings.ToUpper" -> ToUpper(s)
      [] OTHER                    -> s

\* template.Parse: a syntax error, or a call of a function the table given to
\* Funcs does not hold, fails the parse of the whole source.
ParseFails(src, funcs) ==
    \E i \in 1..Len(src) :
        \/ src[i] = "{{"
        \/ ActionFunc(src[i]) # "" /\ ActionFunc(src[i]) \notin DOMAIN funcs

\* What one action prints.  A key the map does not hold prints "<no value>"
\* in text/template; the escaper of html/template drops the nil value.
PrintValue(v, html) == IF html THEN HtmlEscape(v) ELSE v

\* A piped function (upper takes a string) rejects the invalid value of a
\* missing key: "invalid value; expected string".
FieldFails(u, c) == ActionFunc(u) # "" /\ FieldKey(u) \notin DOMAIN c

\* EvalField without the piped function.
EvalFieldNoPipe(u, html, c, funcs) ==
    LET k == FieldKey(u)
    IN  IF k \notin DOMAIN c
           THEN (IF html THEN <<>> ELSE << "<no value>" >>)
           ELSE PrintValue(c[k], html)

EvalField(u, html, c, funcs) ==
    LET k == FieldKey(u)
        f == ActionFunc(u)
    IN  IF k \notin DOMAIN c
           THEN (IF html THEN <<>> ELSE << "<no value>" >>)
           ELSE PrintValue(IF f = "" THEN c[k] ELSE CallStr(funcs[f], c[k]), html)

EvalRange(html, c) ==
    LET ks == SortedKeys(c)
    IN  Flatten([ i \in 1..Len(ks) |->
            <<ks[i], "=">> \o PrintValue(c[ks[i]], html) \o <<";">> ])

\* Template.Execute: walks the parsed source and writes as it goes; the first
\* action that fails stops the walk, what was written before it stays written.
RECURSIVE Execute(_, _, _, _, _)
Execute(src, html, c, funcs, written) ==
    IF src = <<>> THEN [out |-> written, err |-> "nil"]
    ELSE LET u == Head(src) IN
         IF u = "{{fail}}" \/ (u \in FieldUnits /\ FieldFails(u, c))
            THEN [out |-> written, err |-> "exec"]
         ELSE Execute(Tail(src), html, c, funcs,
                written \o (CASE u \in FieldUnits -> EvalField(u, html, c, funcs)
                              [] u = "{{range}}"  -> EvalRange(html, c)
                              [] OTHER            -> <<u>>))

\* tmpl as an engine that interleaves parsing and execution: the text before
\* a syntax error is written before the error is found.
RECURSIVE PrefixBeforeError(_, _)
PrefixBeforeError(src, funcs) ==
    IF src = <<>> \/ ParseFails(<<Head(src)>>, funcs) THEN <<>>
    ELSE <<Head(src)>> \o PrefixBeforeError(Tail(src), funcs)

tmplStreaming(in, html, c, readErr) ==
    LET funcs == IF html THEN HtmlFuncMap ELSE TxtFuncMap IN
    IF readErr THEN [out |-> <<>>, err |-> "read"]
    ELSE IF ParseFails(in, funcs)
         THEN [out |-> Execute(PrefixBeforeError(in, funcs), html, c, funcs, <<>>).out,
               err |-> "parse"]
    ELSE Execute(in, html, c, funcs, <<>>)

\* tmpl(in, htmlMode, out, ctx): the bytes written to out and the error
\* returned.  readErr: io.ReadAll(in) fails.
tmpl(in, html, c, readErr) ==
    LET funcs == IF html THEN HtmlFuncMap ELSE TxtFuncMap IN
    IF readErr THEN [out |-> <<>>, err |-> "read"]
    ELSE IF ParseFails(in, funcs) THEN [out |-> <<>>, err |-> "parse"]
    ELSE Execute(in, html, c, funcs, <<>>)

\* tmplToString(in, htmlMode, ctx)
tmplToString(in, html, c, readErr) == tmpl(in, html, c, readErr)

\* tmplStr(in, ctx): renders in text mode, reports an error on stderr only
\* and returns whatever the buffer holds.
tmplStr(in, c) == tmpl(in, FALSE, c, FALSE).out

tmplStrFailed(in, c) == tmpl(in, FALSE, c, FALSE).err # "nil"

----------------------------------------------------------------------------
(* Paths: strings.Split, strings.Join and package path/filepath *)

Sep == "/"

RECURSIVE SplitAcc(_, _, _)
SplitAcc(s, cur, acc) ==
    IF s = <<>> THEN Append(acc, cur)
    ELSE IF Head(s) = Sep THEN SplitAcc(Tail(s), <<>>, Append(acc, cur))
    ELSE SplitAcc(Tail(s), Append(cur, Head(s)), acc)

\* strings.Split(s, "/"): never empty, Split("") is one empty part.
Split(s) == SplitAcc(s, <<>>, <<>>)

\* strings.Join(parts, "/")
RECURSIVE JoinParts(_)
JoinParts(parts) ==
    IF parts = <<>> THEN <<>>
    ELSE IF Len(parts) = 1 THEN parts[1]
    ELSE parts[1] \o <<Sep>> \o JoinParts(Tail(parts))

Dot == <<".">>
DotDot == <<".", ".">>

\* The components filepath.Clean keeps: "" and "." go, ".." removes the
\* component before it (at the root it goes, at the start of a relative path
\* it stays).
RECURSIVE CleanParts(_, _, _)
CleanParts(parts, stack, rooted) ==
    IF parts = <<>> THEN stack
    ELSE LET c == Head(parts) IN
         IF c = <<>> \/ c = Dot THEN CleanParts(Tail(parts), stack, rooted)
         ELSE IF c = DotDot
              THEN IF stack # <<>> /\ stack[Len(stack)] # DotDot
                      THEN CleanParts(Tail(parts), SubSeq(stack, 1, Len(stack) - 1), rooted)
                   ELSE IF rooted THEN CleanParts(Tail(parts), stack, rooted)
                   ELSE CleanParts(Tail(parts), Append(stack, c), rooted)
         ELSE CleanParts(Tail(parts), Append(stack, c), rooted)

\* filepath.Clean
Clean(p) ==
    LET rooted == p # <<>> /\ p[1] = Sep
        kept == JoinParts(CleanParts(Split(p), <<>>, rooted))
    IN  IF rooted THEN <<Sep>> \o kept
        ELSE IF kept = <<>> THEN Dot
        ELSE kept

\* filepath.Join(a, b): empty elements are ignored, the result is cleaned.
PathJoin(a, b) ==
    IF a = <<>> /\ b = <<>> THEN <<>>
    ELSE IF a = <<>> THEN Clean(b)
    ELSE IF b = <<>> THEN Clean(a)
    ELSE Clean(a \o <<Sep>> \o b)

LastSep(p) ==
    LET I == { i \in 1..Len(p) : p[i] = Sep }
    IN  IF I = {} THEN 0 ELSE CHOOSE i \in I : \A j \in I : j <= i

\* filepath.Dir
PathDir(p) == Clean(SubSeq(p, 1, LastSep(p)))

\* strings.HasSuffix(s, "/")
HasSepSuffix(s) == s # <<>> /\ s[Len(s)] = Sep

----------------------------------------------------------------------------
(* The file system *)

\* Directories that exist without having been made: the working directory,
\* the root and the ancestors of the working directory.
ImplicitDir(p) ==
    \/ p = Dot
    \/ p = <<Sep>>
    \/ \A i \in 1..Len(Split(p)) : Split(p)[i] = DotDot

IsDirIn(fs, p) == ImplicitDir(p) \/ (p \in DOMAIN fs /\ fs[p].kind = "dir")
ExistsIn(fs, p) == ImplicitDir(p) \/ p \in DOMAIN fs

\* The ancestors of p that are not p: Dir(p), Dir(Dir(p)), ...
RECURSIVE Ancestors(_)
Ancestors(p) ==
    IF ImplicitDir(p) THEN {}
    ELSE {PathDir(p)} \cup Ancestors(PathDir(p))

DirNode == [kind |-> "dir", data |-> <<>>]
FileNode(d) == [kind |-> "file", data |-> d]

\* os.MkdirAll(p, 0755): fails when p or an ancestor of p is not a directory.
MkdirAllFails(fs, p) ==
    \E q \in {p} \cup Ancestors(p) : ExistsIn(fs, q) /\ ~IsDirIn(fs, q)

MkdirAll(fs, p) ==
    LET made == { q \in {p} \cup Ancestors(p) : ~ExistsIn(fs, q) }
    IN  [ q \in DOMAIN fs \cup made |-> IF q \in made THEN DirNode ELSE fs[q] ]

\* ensureEnclosingDir(path)
ensureEnclosingDirFails(fs, path) == MkdirAllFails(fs, PathDir(path))
ensureEnclosingDir(fs, path) == MkdirAll(fs, PathDir(path))

\* os.Mkdir(p, 0755): fails when p exists or its parent is no directory.
MkdirFails(fs, p) == ExistsIn(fs, p) \/ ~IsDirIn(fs, PathDir(p))
Mkdir(fs, p) == [ q \in DOMAIN fs \cup {p} |-> IF q = p THEN DirNode ELSE fs[q] ]

\* os.Create(p): fails when p is a directory or its parent is no directory;
\* a file that exists is truncated.
CreateFails(fs, p) == IsDirIn(fs, p) \/ ~IsDirIn(fs, PathDir(p))
WriteFile(fs, p, d) ==
    [ q \in DOMAIN fs \cup {p} |-> IF q = p THEN FileNode(d) ELSE fs[q] ]

----------------------------------------------------------------------------
(* The input tree and filepath.Walk *)

Roots == { <<"d">>, Dot }

\* Paths below the root at which the model places a file.
RelPaths == { <<"a">>, <<"{{.K1}}">>, <<"b", "/", "a">>, <<"b", "/", "{{">> }

\* What a file holds.
Datas == { <<>>, <<"a">>, <<"a", "{{.K1}}">>, <<"a", "{{fail}}">>, <<"{{">> }

Perm == 420   \* 0644

\* What is found at a path: a regular file, one that cannot be opened, or a
\* symbolic link.
Entries ==
    { [kind |-> "reg", data |-> d, perm |-> Perm] : d \in Datas }
    \cup { [kind |-> "regNoOpen", data |-> <<>>, perm |-> Perm],
           [kind |-> "symlink", data |-> <<>>, perm |-> Perm] }

DirEntry == [kind |-> "dir", data |-> <<>>, perm |-> Perm]
MissingEntry == [kind |-> "missing", data |-> <<>>, perm |-> 0]

\* The tree with the files `files` (relative path -> entry) below `root`:
\* the root and every directory on the way to a file are directories.
TreeOf(root, files) ==
    LET full == { PathJoin(root, r) : r \in DOMAIN files }
        dirs == {root} \cup UNION { Ancestors(f) : f \in full }
        rel(f) == CHOOSE r \in DOMAIN files : PathJoin(root, r) = f
    IN  [ q \in full \cup ((dirs \ {Dot}) \cup {root}) |->
            IF q \in full THEN files[rel(q)] ELSE DirEntry ]

Trees(root) ==
    { TreeOf(root, files) :
        files \in UNION { [S -> Entries] :
                          S \in { T \in SUBSET RelPaths : Cardinality(T) <= MaxFiles } } }
    \cup { [ q \in {root} |-> MissingEntry ] }

\* Byte order of the units of file names.
UnitRank(u) ==
    CASE u = "."             -> 1
      [] u = "<"             -> 2
      [] u = "a"             -> 3
      [] u = "b"             -> 4
      [] u = "d"             -> 5
      [] u = "{{"            -> 6
      [] u = "{{.K1|upper}}" -> 7
      [] u = "{{.K1}}"       -> 8
      [] u = "{{.K2}}"       -> 9
      [] OTHER               -> 10

\* a < b for two names, as Go compares strings.
RECURSIVE NameLess(_, _)
NameLess(a, b) ==
    IF b = <<>> THEN FALSE
    ELSE IF a = <<>> THEN TRUE
    ELSE IF Head(a) # Head(b) THEN UnitRank(Head(a)) < UnitRank(Head(b))
    ELSE NameLess(Tail(a), Tail(b))

\* p is visited before q: a directory before what it holds, the names of one
\* directory in sorted order.
RECURSIVE PartsLess(_, _)
PartsLess(ps, qs) ==
    IF qs = <<>> THEN FALSE
    ELSE IF ps = <<>> THEN TRUE
    ELSE IF Head(ps) # Head(qs) THEN NameLess(Head(ps), Head(qs))
    ELSE PartsLess(Tail(ps), Tail(qs))

VisitedBefore(p, q) == PartsLess(Split(p), Split(q))

RECURSIVE SortPaths(_)
SortPaths(S) ==
    IF S = {} THEN <<>>
    ELSE LET m == CHOOSE p \in S : \A q \in S \ {p} : VisitedBefore(p, q)
         IN  <<m>> \o SortPaths(S \ {m})

\* The order in which filepath.Walk(root, fn) calls fn.
WalkOrder(root, t) == <<root>> \o SortPaths(DOMAIN t \ {root})

----------------------------------------------------------------------------
(* The archive: archive/tar as runDir and extractTar use it *)

NoErr == [op |-> "nil", path |-> <<>>]
Err(o, p) == [op |-> o, path |-> p]

\* tar.Writer.WriteHeader promotes the zero Typeflag runDir leaves in the
\* header: to a directory when the name ends in "/", to a regular file
\* otherwise.
WrittenTypeflag(name) == IF HasSepSuffix(name) THEN "dir" ELSE "reg"

\* tw.Write(contents) fails with ErrWriteTooLong when the entry has no room
\* for it: a header-only entry (a directory) takes no bytes.
WriteTooLong(name, contents) == WrittenTypeflag(name) = "dir" /\ contents # <<>>

\* runDir builds the tar writer over the buffer, tar.NewWriter(buf): what tw
\* writes goes to buf, and os.Stdout is left as it is.
\* TarSinkStreaming is the writer built over os.Stdout when the output is "-".
TarSinkStreaming(b, so, out, rec) ==
    IF out = <<"-">> THEN [buf |-> Append(b, rec), stdout |-> Append(so, rec)]
    ELSE [buf |-> Append(b, rec), stdout |-> so]

TarSink(b, so, out, rec) == [buf |-> Append(b, rec), stdout |-> so]

\* Record with the size field left at zero.
RecordNoSize(name, perm, contents) ==
    [ Name |-> name, Mode |-> perm, Size |-> 0,
      Typeflag |-> WrittenTypeflag(name), data |-> contents ]

Record(name, perm, contents) ==
    [ Name |-> name, Mode |-> perm, Size |-> Len(contents),
      Typeflag |-> WrittenTypeflag(name), data |-> contents ]

----------------------------------------------------------------------------
(* extractTar *)

\* The number of leading components extractTar strips from a path in `parts`.
ToStrip(parts, n) == IF n >= Len(parts) THEN Len(parts) - 1 ELSE n

\* StripPath with the slice taken one component too far: parts[toStrip+1:].
StripPathOffByOne(path, n) ==
    LET parts == Split(path)
        toStrip == ToStrip(parts, n)
    IN  IF Len(parts) > toStrip + 1
           THEN JoinParts(SubSeq(parts, toStrip + 2, Len(parts)))
           ELSE path

\* The name a record is written under, below outPath.
StripPath(path, n) ==
    LET parts == Split(path)
        toStrip == ToStrip(parts, n)
    IN  IF Len(parts) > toStrip
           THEN JoinParts(SubSeq(parts, toStrip + 1, Len(parts)))
           ELSE path

\* parts[toStrip:] panics for a negative toStrip.
StripPanics(path, n) == ToStrip(Split(path), n) < 0

\* FullPath with the record written under its base name, filepath.Base.
FullPathBase(out, path, n) ==
    LET parts == Split(StripPath(path, n))
    IN  PathJoin(out, parts[Len(parts)])

FullPath(out, path, n) == PathJoin(out, StripPath(path, n))

----------------------------------------------------------------------------
(* SpecDir: run with -r: runDir, then extractTar or the copy to os.Stdout *)

Stdout == <<"-">>
OutDir == <<"o">>

\* The context of the directory runs: K1 set to a value, or not set.
DirContexts == UNION { [S -> Vals] : S \in SUBSET {"K1"} }

StripNs == (-1)..MaxStripN

\* The state of the library calls while another entry point runs.
HermIdle ==
    /\ fn = ""
    /\ arg = 0
    /\ world1 = <<>>
    /\ world2 = <<>>
    /\ out1 = <<>>
    /\ out2 = <<>>

MergeIdle ==
    /\ heap = <<>>
    /\ heap0 = <<>>
    /\ dst = 0
    /\ srcs = <<>>
    /\ ret = 0

SliceIdle ==
    /\ list = <<>>
    /\ indices = <<>>
    /\ sres = <<>>

CallIdle ==
    /\ lfn = ""
    /\ largs = <<>>
    /\ lres = <<>>

CopyIdle ==
    /\ cheap = <<>>
    /\ orig = 0
    /\ copy = 0
    /\ before = <<>>
    /\ side = ""

LibIdle == HermIdle /\ MergeIdle /\ SliceIdle /\ CallIdle /\ CopyIdle

\* The state of the directory pipeline while another entry point runs.
DirIdle ==
    /\ dir = <<>>
    /\ tree = <<>>
    /\ outPath = <<>>
    /\ stripN = 0
    /\ walk = <<>>
    /\ handles = {}
    /\ buf = <<>>
    /\ stderr = <<>>
    /\ stdout = <<>>
    /\ rd = 0
    /\ fsOut = <<>>
    /\ rerr = NoErr

TmplIdle ==
    /\ tin = <<>>
    /\ tinErr = FALSE
    /\ tout = <<>>
    /\ terr = "nil"
    /\ input = <<>>

\* runDir is entered: buf is empty, the walk is about to start.  The
\* destination directory exists (and is empty) or does not exist.
InitDir ==
    /\ mode = "dir"
    /\ pc = "walk"
    /\ ctx \in DirContexts
    /\ htmlMode \in BOOLEAN
    /\ TmplIdle
    /\ dir \in Roots
    /\ tree \in Trees(dir)
    /\ outPath \in {Stdout, OutDir}
    /\ stripN \in StripNs
    /\ walk = WalkOrder(dir, tree)
    /\ handles = {}
    /\ buf = <<>>
    /\ stderr = <<>>
    /\ stdout = <<>>
    /\ rd = 1
    /\ fsOut \in { <<>>, [ q \in {OutDir} |-> DirNode ] }
    /\ rerr = NoErr
    /\ LibIdle

\* runDir returns the error of the walk: "issue recursing".
WalkAborts(e) ==
    /\ rerr' = e
    /\ pc' = "done"

\* One call of the function runDir hands to filepath.Walk, for the next path.
WalkStep ==
    /\ mode = "dir"
    /\ pc = "walk"
    /\ walk # <<>>
    /\ LET path == Head(walk)
           info == tree[path]
           r == tmplToString(info.data, htmlMode, ctx, FALSE)
           name == tmplStr(path, ctx)
       IN  \/ /\ info.kind = "missing"                    \* err != nil
              /\ WalkAborts(Err("lstat", path))
              /\ UNCHANGED <<walk, handles, buf, stderr, stdout>>
           \/ /\ info.kind \in {"dir", "symlink"}         \* !IsRegular()
              /\ walk' = Tail(walk)
              /\ UNCHANGED <<handles, buf, stderr, stdout, rerr, pc>>
           \/ /\ info.kind = "regNoOpen"                  \* os.Open fails
              /\ WalkAborts(Err("open", path))
              /\ UNCHANGED <<walk, handles, buf, stderr, stdout>>
           \/ /\ info.kind = "reg"
              /\ handles' = handles \cup {path}           \* f is never closed
              /\ IF r.err # "nil"
                    THEN /\ WalkAborts(Err("render", path))
                         /\ UNCHANGED <<walk, buf, stderr, stdout>>
                    ELSE /\ stderr' = IF tmplStrFailed(path, ctx)
                                         THEN Append(stderr, path) ELSE stderr
                         /\ IF WriteTooLong(name, r.out)
                               THEN /\ LET w == TarSink(buf, stdout, outPath,
                                                        Record(name, info.perm, <<>>))
                                       IN  buf' = w.buf /\ stdout' = w.stdout
                                    /\ WalkAborts(Err("write", name))
                                    /\ UNCHANGED walk
                               ELSE /\ LET w == TarSink(buf, stdout, outPath,
                                                        Record(name, info.perm, r.out))
                                       IN  buf' = w.buf /\ stdout' = w.stdout
                                    /\ walk' = Tail(walk)
                                    /\ UNCHANGED <<rerr, pc>>
    /\ UNCHANGED <<mode, ctx, htmlMode, tmplVars, libVars, dir, tree, outPath,
                   stripN,
                   rd, fsOut>>

\* The walk is over without an error and the output is "-":
\* io.Copy(os.Stdout, buf).
CopyToStdout ==
    /\ mode = "dir"
    /\ pc = "walk"
    /\ walk = <<>>
    /\ outPath = Stdout
    /\ stdout' = stdout \o buf
    /\ rerr' = NoErr
    /\ pc' = "done"
    /\ UNCHANGED <<mode, ctx, htmlMode, tmplVars, libVars, dir, tree, outPath,
                   stripN,
                   walk, handles, buf, stderr, rd, fsOut>>

\* The walk is over without an error and the output is a directory:
\* extractTar(buf, outPath, stripN) is entered.
StartExtract ==
    /\ mode = "dir"
    /\ pc = "walk"
    /\ walk = <<>>
    /\ outPath # Stdout
    /\ pc' = "extract"
    /\ rd' = 1
    /\ UNCHANGED <<mode, ctx, htmlMode, tmplVars, libVars, dir, tree, outPath,
                   stripN,
                   walk, handles, buf, stderr, stdout, fsOut, rerr>>

\* One turn of the loop of extractTar.
ExtractStep ==
    /\ mode \in {"dir", "extract"}
    /\ pc = "extract"
    /\ IF rd > Len(buf)                                   \* io.EOF: break
          THEN /\ rerr' = NoErr
               /\ pc' = "done"
               /\ UNCHANGED <<rd, fsOut>>
          ELSE LET header == buf[rd]
                   fullPath == FullPath(outPath, header.Name, stripN)
                   made == ensureEnclosingDir(fsOut, fullPath)
               IN  IF StripPanics(header.Name, stripN)
                      THEN /\ pc' = "panic"
                           /\ UNCHANGED <<rd, fsOut, rerr>>
                   ELSE IF ensureEnclosingDirFails(fsOut, fullPath)
                      THEN /\ rerr' = Err("ensure", fullPath)
                           /\ pc' = "done"
                           /\ UNCHANGED <<rd, fsOut>>
                   ELSE IF header.Typeflag = "dir"
                      THEN IF MkdirFails(made, fullPath)
                              THEN /\ fsOut' = made
                                   /\ rerr' = Err("mkdir", fullPath)
                                   /\ pc' = "done"
                                   /\ UNCHANGED rd
                              ELSE /\ fsOut' = Mkdir(made, fullPath)
                                   /\ rd' = rd + 1
                                   /\ UNCHANGED <<rerr, pc>>
                   ELSE IF header.Typeflag = "reg"
                      THEN IF CreateFails(made, fullPath)
                              THEN /\ fsOut' = made
                                   /\ rerr' = Err("create", fullPath)
                                   /\ pc' = "done"
                                   /\ UNCHANGED rd
                              ELSE /\ fsOut' = WriteFile(made, fullPath, header.data)
                                   /\ rd' = rd + 1
                                   /\ UNCHANGED <<rerr, pc>>
                   ELSE /\ fsOut' = made                  \* unknown type
                        /\ rerr' = Err("type", header.Name)
                        /\ pc' = "done"
                        /\ UNCHANGED rd
    /\ UNCHANGED <<mode, ctx, htmlMode, tmplVars, libVars, dir, tree, outPath,
                   stripN,
                   walk, handles, buf, stderr, stdout>>

NextDir == WalkStep \/ CopyToStdout \/ StartExtract \/ ExtractStep

SpecDir == InitDir /\ [][NextDir]_vars

----------------------------------------------------------------------------
(* SpecExtract: extractTar on an archive that any tar writer produced *)

MaxRecs == 2         \* most records of such an archive

\* The record paths: plain, nested, with "..", absolute.
ArchNames ==
    { <<"a">>, <<"b">>, <<"b", "/", "a">>, <<"c", "/", "a">>,
      <<".", ".", "/", "a">>, <<"/", "a">> }

ArchDatas == { <<"a">>, <<"b">> }

\* A record of a regular file, of a directory (tar.TypeDir) or of a
\* symbolic link (tar.TypeSymlink).
ArchRecords ==
    { [ Name |-> n, Mode |-> Perm, Size |-> Len(d), Typeflag |-> "reg",
        data |-> d ] : n \in ArchNames, d \in ArchDatas }
    \cup { [ Name |-> n, Mode |-> Perm, Size |-> 0, Typeflag |-> t,
             data |-> <<>> ] : n \in ArchNames, t \in {"dir", "symlink"} }

Archives == SeqsUpTo(ArchRecords, MaxRecs)

\* extractTar(buf, outPath, stripN) is entered.  The destination directory
\* exists (and is empty) or does not exist.
InitExtract ==
    /\ mode = "extract"
    /\ pc = "extract"
    /\ ctx = <<>>
    /\ htmlMode = FALSE
    /\ TmplIdle
    /\ dir = <<>>
    /\ tree = <<>>
    /\ outPath = OutDir
    /\ stripN \in StripNs
    /\ walk = <<>>
    /\ handles = {}
    /\ buf \in Archives
    /\ stderr = <<>>
    /\ stdout = <<>>
    /\ rd = 1
    /\ fsOut \in { <<>>, [ q \in {OutDir} |-> DirNode ] }
    /\ rerr = NoErr
    /\ LibIdle

NextExtract == ExtractStep

SpecExtract == InitExtract /\ [][NextExtract]_vars

----------------------------------------------------------------------------
(* SpecTmpl: one call of tmpl on a template source from a bounded set *)

Contexts == UNION { [S -> Vals] : S \in SUBSET Keys }

TmplUnits == {"a", "b"} \cup ActionUnits

InitTmpl ==
    /\ mode = "tmpl"
    /\ pc = "start"
    /\ ctx \in Contexts
    /\ htmlMode \in BOOLEAN
    /\ tin \in SeqsUpTo(TmplUnits, MaxTmplLen)
    /\ tinErr \in BOOLEAN
    /\ tout = <<>>
    /\ terr = "nil"
    /\ input = Stdout
    /\ DirIdle
    /\ LibIdle

\* The call tmpl(in, htmlMode, out, ctx) of run / TestTmpl.
CallTmpl ==
    /\ mode = "tmpl"
    /\ pc = "start"
    /\ LET r == tmpl(tin, htmlMode, ctx, tinErr)
       IN  /\ tout' = tout \o r.out
           /\ terr' = r.err
    /\ pc' = "done"
    /\ UNCHANGED <<mode, ctx, htmlMode, tin, tinErr, input, dirVars, libVars>>

NextTmpl == CallTmpl

SpecTmpl == InitTmpl /\ [][NextTmpl]_vars

----------------------------------------------------------------------------
(* SpecRun: run in single-file mode: getInput, getOutput, tmpl *)

InFile == <<"i">>
OutFile == <<"o">>
OldData == <<"b">>

\* What -f names: a file that opens, one that does not, or "-" (os.Stdin).
RunInputs ==
    { [ q \in {InFile} |-> e ] :
        e \in { [kind |-> "reg", data |-> d, perm |-> Perm] : d \in Datas }
               \cup { [kind |-> "regNoOpen", data |-> <<>>, perm |-> Perm] } }

\* run(input, output, "", htmlMode) is entered.  The output file exists with
\* content of its own, does not exist, or is a directory.
InitRun ==
    /\ mode = "run"
    /\ pc = "start"
    /\ ctx \in DirContexts
    /\ htmlMode \in BOOLEAN
    /\ input \in {Stdout, InFile}
    /\ tree \in RunInputs
    /\ tin = IF input = InFile THEN tree[InFile].data ELSE <<"a", "{{.K1}}">>
    /\ tinErr \in BOOLEAN
    /\ tout = <<>>
    /\ terr = "nil"
    /\ dir = <<>>
    /\ outPath \in {Stdout, OutFile}
    /\ stripN = 0
    /\ walk = <<>>
    /\ handles = {}
    /\ buf = <<>>
    /\ stderr = <<>>
    /\ stdout = <<>>
    /\ rd = 0
    /\ fsOut \in { <<>>, [ q \in {OutFile} |-> FileNode(OldData) ],
                    [ q \in {OutFile} |-> DirNode ] }
    /\ rerr = NoErr
    /\ LibIdle

\* in, err := getInput(input)
GetInput ==
    /\ mode = "run"
    /\ pc = "start"
    /\ IF input # Stdout /\ tree[input].kind # "reg"
          THEN /\ terr' = "open"
               /\ pc' = "done"
               /\ UNCHANGED handles
          ELSE /\ handles' = IF input = Stdout THEN handles
                                               ELSE handles \cup {input}
               /\ pc' = "getOutput"
               /\ UNCHANGED terr
    /\ UNCHANGED <<mode, ctx, htmlMode, tin, tinErr, tout, input, libVars,
                   dir, tree, outPath, stripN, walk, buf, stderr, stdout,
                   rd, fsOut, rerr>>

\* out, err := getOutput(*flagOutput): os.OpenFile with O_CREATE|O_TRUNC.
GetOutput ==
    /\ mode = "run"
    /\ pc = "getOutput"
    /\ IF outPath = Stdout
          THEN /\ pc' = "tmpl"
               /\ UNCHANGED <<fsOut, terr>>
          ELSE IF CreateFails(fsOut, outPath)
          THEN /\ terr' = "openfile"
               /\ pc' = "done"
               /\ UNCHANGED fsOut
          ELSE /\ fsOut' = WriteFile(fsOut, outPath, <<>>)
               /\ pc' = "tmpl"
               /\ UNCHANGED terr
    /\ UNCHANGED <<mode, ctx, htmlMode, tin, tinErr, tout, input, libVars,
                   dir, tree, outPath, stripN, walk, handles, buf, stderr,
                   stdout, rd, rerr>>

\* return tmpl(in, *flagHTML, out, envMap())
RunTmpl ==
    /\ mode = "run"
    /\ pc = "tmpl"
    /\ LET r == tmpl(tin, htmlMode, ctx, tinErr)
       IN  /\ tout' = tout \o r.out
           /\ terr' = r.err
           /\ fsOut' = IF outPath = Stdout THEN fsOut
                       ELSE WriteFile(fsOut, outPath,
                                      fsOut[outPath].data \o r.out)
    /\ pc' = "done"
    /\ UNCHANGED <<mode, ctx, htmlMode, tin, tinErr, input, libVars,
                   dir, tree, outPath, stripN, walk, handles, buf, stderr,
                   stdout, rd, rerr>>

NextRun == GetInput \/ GetOutput \/ RunTmpl

SpecRun == InitRun /\ [][NextRun]_vars

\* C28: in single-file mode the output destination is created or truncated
\* only after the template has been read and parsed without error, so a
\* run that fails to open, read or parse its input leaves the output file
\* as it was.
C28_OutputUntouchedOnFailure ==
    [][ (mode = "run" /\ fsOut' # fsOut) =>
            /\ ~tinErr
            /\ ~ParseFails(tin, IF htmlMode THEN HtmlFuncMap ELSE TxtFuncMap) ]_vars

----------------------------------------------------------------------------
(* Properties of the render operation (SpecTmpl) *)

TmplDone == mode = "tmpl" /\ pc = "done"

\* The source holds an action that is never closed or a call of a function
\* no table defines.
SyntaxError(src) == \E i \in 1..Len(src) : src[i] \in {"{{", "{{nofn}}"}

\* C6: when the template source fails to parse, tmpl returns an error and
\* nothing has been written to the output writer.
C6_ParseFailureWritesNothing ==
    (TmplDone /\ ~tinErr /\ SyntaxError(tin)) => (terr # "nil" /\ tout = <<>>)

\* A syntax error that follows literal text and an action that would print.
C6_Witness ==
    /\ TmplDone
    /\ tin = <<"a", "{{.K1}}", "{{">>
    /\ "K1" \in DOMAIN ctx /\ ctx["K1"] # <<>>
    /\ terr = "parse"

\* What the claim expects of one unit of a template made of literal text and
\* references to keys the context holds: the value itself, or the value in
\* upper case when piped through upper.
ExpectedUnit(u, c) ==
    CASE u = "{{.K1}}"       -> c["K1"]
      [] u = "{{.K2}}"       -> c["K2"]
      [] u = "{{.K1|upper}}" -> ToUpper(c["K1"])
      [] OTHER               -> <<u>>

ExpectedPlain(src, c) == Flatten([ i \in 1..Len(src) |-> ExpectedUnit(src[i], c) ])

ExpectedEscaped(src, c) ==
    Flatten([ i \in 1..Len(src) |->
        IF src[i] \in FieldUnits THEN HtmlEscape(ExpectedUnit(src[i], c))
        ELSE <<src[i]>> ])

\* References only, each to a key the context holds.
RefsPresentKeys(src, c) ==
    /\ \E i \in 1..Len(src) : src[i] \in FieldUnits
    /\ \A i \in 1..Len(src) :
          /\ src[i] \in LitUnits \cup FieldUnits
          /\ src[i] \in FieldUnits => FieldKey(src[i]) \in DOMAIN c

\* The places of out where the pair k=v is printed.
PairPlaces(out, k, v) ==
    { i \in 1..Len(out) :
        /\ i + Len(v) + 2 <= Len(out)
        /\ SubSeq(out, i, i + Len(v) + 2) = <<k, "=">> \o v \o <<";">> }

KeyPlaces(out, k) == { i \in 1..Len(out) : out[i] = k }

\* out prints every pair of c once and nothing else; shown(v) is the form a
\* value is printed in.
RangePrintsEachPairOnce(out, c, html) ==
    /\ \A k \in DOMAIN c :
          /\ Cardinality(KeyPlaces(out, k)) = 1
          /\ Cardinality(PairPlaces(out, k, IF html THEN HtmlEscape(c[k]) ELSE c[k])) = 1
    /\ \A k \in Keys \ DOMAIN c : KeyPlaces(out, k) = {}

C8_RefCase == TmplDone /\ ~tinErr /\ RefsPresentKeys(tin, ctx)
C8_RangeCase == TmplDone /\ ~tinErr /\ tin = << "{{range}}" >>

----------------------------------------------------------------------------
(* Properties of the directory pipeline (SpecDir) *)

DirRun == mode = "dir"

\* The files of the input tree that are not directories.
InputFiles == { p \in DOMAIN tree : tree[p].kind \notin {"dir", "missing"} }

\* What the content of the input file p renders to.
Rendered(p) == tmplToString(tree[p].data, htmlMode, ctx, FALSE)

ContentRenderFails(p) == Rendered(p).err # "nil"
PathRenderFails(p) == tmpl(p, FALSE, ctx, FALSE).err # "nil"

\* A path made of literal characters only.
PlainPath(p) == \A i \in 1..Len(p) : p[i] \notin ActionUnits

\* The files (not the directories) of the destination file system.
FilesOf(fs) == { q \in DOMAIN fs : fs[q].kind = "file" }

\* Nothing has been written: os.Stdout is empty and the destination holds at
\* most the directory it held at the start.
NoOutput == stdout = <<>> /\ DOMAIN fsOut \subseteq {OutDir} /\ FilesOf(fsOut) = {}

\* The path p without its first n components.
DropComponents(p, n) == JoinParts(SubSeq(Split(p), n + 1, Len(Split(p))))

\* A run into a directory has ended, on a tree of regular files whose
\* contents all render.
C1_Case ==
    /\ DirRun /\ pc = "done"
    /\ outPath = OutDir
    /\ stripN \in {0, 1}
    /\ InputFiles # {}
    /\ \A p \in InputFiles : tree[p].kind = "reg" /\ ~ContentRenderFails(p)

\* Below the destination there is one file per input file, at the path of
\* the input file less its first stripN components, holding what the input
\* file renders to.
C1_RoundTrip ==
    /\ rerr = NoErr
    /\ FilesOf(fsOut) = { PathJoin(OutDir, DropComponents(p, stripN)) : p \in InputFiles }
    /\ Cardinality(FilesOf(fsOut)) = Cardinality(InputFiles)
    /\ \A p \in InputFiles :
          fsOut[PathJoin(OutDir, DropComponents(p, stripN))].data = Rendered(p).out

C2_ExpectedName(path, n) ==
    LET parts == Split(path)
        k == Len(parts)
    IN  JoinParts(SubSeq(parts, Min2(n, k - 1) + 1, k))

\* C2: for every record (path of k >= 1 components) and every stripN >= 0,
\* extractTar writes the record at the path made of the last
\* k - min(stripN, k-1) components; that relative name is never empty.
C2_StripRule ==
    (DirRun /\ pc \in {"extract", "done"} /\ stripN >= 0) =>
        \A i \in 1..Len(buf) :
            i < rd =>
                /\ ExistsIn(fsOut, PathJoin(outPath, C2_ExpectedName(buf[i].Name, stripN)))
                /\ C2_ExpectedName(buf[i].Name, stripN) # <<>>

\* C3: a render failure of a file's content or of its path aborts the walk:
\* runDir returns an error naming the path, no record is emitted for the
\* file and no later file is visited.
C3_RenderFailureAborts ==
    DirRun =>
        \A p \in handles :
            (ContentRenderFails(p) \/ PathRenderFails(p)) =>
                /\ pc = "done"
                /\ rerr.op = "render" /\ rerr.path = p
                /\ walk # <<>> /\ Head(walk) = p
                /\ Len(buf) = Cardinality(handles) - 1

\* C4: nothing is written to the output stream or below the destination
\* until the walk is over; when a step of the walk fails (a file cannot be
\* opened, its content or its path does not render, the record cannot be
\* written), the pipeline returns an error having produced no output.
C4_WalkStepFailed ==
    \/ \E p \in handles : ContentRenderFails(p) \/ PathRenderFails(p)
    \/ rerr.op \in {"lstat", "open", "render", "write"}

C4_AllOrNothing ==
    DirRun =>
        /\ pc = "walk" => NoOutput
        /\ C4_WalkStepFailed => (NoOutput /\ (pc = "done" => rerr # NoErr))

C20_HandlesScopedToStep ==
    mode = "dir" =>
        /\ Cardinality(handles) <= 1
        /\ pc = "walk" => handles = {}
        /\ pc \in {"done", "panic"} => handles = {}

\* The walk of runDir has returned nil: every path has been visited.
WalkSucceeded == DirRun /\ walk = <<>>

\* The regular files of the tree in the order filepath.Walk visits them.
RegularInOrder ==
    SelectSeq(WalkOrder(dir, tree),
              LAMBDA p : tree[p].kind \in {"reg", "regNoOpen"})

\* C21: after a successful walk the archive holds exactly one record per
\* regular file under the root, in visit order, and none for a directory or
\* a symbolic link; the size field of each record is the length of its
\* payload, which is what the content of the file renders to.
C21_OneRecordPerRegularFile ==
    WalkSucceeded =>
        /\ Len(buf) = Len(RegularInOrder)
        /\ \A i \in 1..Len(buf) :
              /\ buf[i].data = Rendered(RegularInOrder[i]).out
              /\ buf[i].Size = Len(buf[i].data)
              /\ buf[i].Name = tmplStr(RegularInOrder[i], ctx)

\* A walk over a regular file with content that renders to two characters
\* and a symbolic link: one record.
C21_Witness ==
    /\ WalkSucceeded
    /\ \E p \in DOMAIN tree : tree[p].kind = "symlink"
    /\ Len(buf) = 1
    /\ buf[1].Size = 2

\* What tar.Writer.Close writes after the last record: the end-of-archive
\* marker, two blocks of zero bytes.
EndOfArchive ==
    [ Name |-> <<>>, Mode |-> 0, Size |-> 0, Typeflag |-> "end",
      data |-> <<>> ]

\* C26: the archive handed to the sink (os.Stdout or extractTar) after a
\* successful walk is complete: it ends with the end-of-archive marker,
\* also when the walk found no regular file.
C26_ArchiveFinalized ==
    (WalkSucceeded /\ pc # "walk") =>
        /\ buf # <<>>
        /\ buf[Len(buf)] = EndOfArchive
        /\ (outPath = Stdout /\ pc = "done") =>
              (stdout # <<>> /\ stdout[Len(stdout)] = EndOfArchive)

----------------------------------------------------------------------------
(* Properties of extractTar on any archive (SpecExtract) *)

ExtractRun == mode = "extract"

\* Where the claims expect record i to be written: below outPath, at its
\* path less the components the strip rule removes.
DestOf(i) == PathJoin(outPath, C2_ExpectedName(buf[i].Name, stripN))

\* q lies inside the directory d.
Inside(d, q) ==
    /\ Len(q) > Len(d) + 1
    /\ SubSeq(q, 1, Len(d) + 1) = d \o <<Sep>>

\* The archive describes a tree: no record of a regular file is written
\* where another record is written, or at a directory on the way to one.
DescribesTree ==
    \A i \in 1..Len(buf) :
        buf[i].Typeflag = "reg" =>
            \A j \in 1..Len(buf) \ {i} :
                DestOf(i) \notin {DestOf(j)} \cup Ancestors(DestOf(j))

C22_Case ==
    /\ ExtractRun /\ pc = "done"
    /\ stripN >= 0
    /\ \A i \in 1..Len(buf) : buf[i].Typeflag \in {"reg", "dir"}
    /\ \E i \in 1..Len(buf) : buf[i].Typeflag = "dir"
    /\ DescribesTree

\* C22: for every archive of directory records and regular-file records in
\* any order (a directory record may follow a file record that lies in that
\* directory, or name a directory that exists), extractTar succeeds and
\* every directory a record names exists afterwards.
C22_DirectoryRecordsTolerated ==
    C22_Case =>
        /\ rerr = NoErr
        /\ \A i \in 1..Len(buf) :
              buf[i].Typeflag = "dir" => IsDirIn(fsOut, DestOf(i))

\* C23: when extractTar meets a record that is neither a regular file nor a
\* directory, it returns an error, reads no later record, and makes nothing
\* in the file system for that record: no file, no enclosing directory.
C23_UnknownTypeCreatesNothing ==
    [][ ( /\ ExtractRun /\ pc = "extract"
          /\ stripN >= 0
          /\ rd <= Len(buf)
          /\ buf[rd].Typeflag \notin {"reg", "dir"} )
        => ( /\ pc' = "done"
             /\ rerr'.op = "type"
             /\ rd' = rd
             /\ fsOut' = fsOut ) ]_vars

\* C24: whatever the record paths (with ".." components, absolute) and
\* stripN, every file and directory extractTar makes lies inside outPath
\* (or is outPath).
C24_ExtractionContained ==
    ExtractRun =>
        \A q \in DOMAIN fsOut : q = outPath \/ Inside(outPath, q)

RegRecords == { i \in 1..Len(buf) : buf[i].Typeflag = "reg" }

C25_Done == ExtractRun /\ pc = "done" /\ rerr = NoErr /\ stripN >= 0

\* Each regular-file record has a file of its own with its content.
C25_EachRecordItsFile ==
    /\ Cardinality(FilesOf(fsOut)) = Cardinality(RegRecords)
    /\ \A i \in RegRecords :
          /\ DestOf(i) \in FilesOf(fsOut)
          /\ fsOut[DestOf(i)].data = buf[i].data

\* C25 as stated: for every archive with pairwise distinct record paths and
\* every stripN >= 0, distinct records are written to distinct files: after
\* a successful extraction there are as many files as regular-file records
\* and no content was overwritten.
C25_Original ==
    ( /\ C25_Done
      /\ \A i, j \in 1..Len(buf) : i # j => buf[i].Name # buf[j].Name )
    => C25_EachRecordItsFile

\* C25 amended: the same for archives whose records have pairwise distinct
\* destinations, that is distinct paths after the strip rule and the join
\* with outPath.
C25_ExtractionInjective ==
    ( /\ C25_Done
      /\ \A i, j \in 1..Len(buf) : i # j => DestOf(i) # DestOf(j) )
    => C25_EachRecordItsFile

\* Two records b/a and c/a with different contents, extracted whole.
C25_Witness ==
    /\ C25_Done
    /\ stripN = 0
    /\ Len(buf) = 2
    /\ buf[1].Name = <<"b", "/", "a">> /\ buf[2].Name = <<"c", "/", "a">>
    /\ RegRecords = {1, 2}
    /\ buf[1].data # buf[2].data
    /\ Cardinality(FilesOf(fsOut)) = 2

----------------------------------------------------------------------------
(* SpecHermetic: one function of the hermetic table, called with the same  *)
(* argument in two runs of the program.  A run finds a world outside       *)
(* itself: the clock, the random source of the system, the environment     *)
(* (variables, time zone), the resolver of the network, and the order in   *)
(* which this run iterates over a map.                                     *)

MaxWorld == 1        \* each part of the world takes a value in 0..MaxWorld
MaxArgLen == 2       \* most entries (characters, keys) of the argument

Resources == {"clock", "random", "env", "network", "maporder"}

Worlds == [Resources -> 0..MaxWorld]

\* The world of the first run.
RefWorld == [r \in Resources |-> 0]

\* What the function impl reads outside its argument of n entries, from
\* its body and the bodies of the functions it calls.
ImplReads(impl, n) ==
    CASE impl = "time.Now" -> {"clock"}
      [] impl = "dateAgo" -> {"clock"}               \* time.Since(t)
      [] impl \in {"date", "htmlDate", "toDate", "mustToDate"} ->
             {"env"}                                 \* time.Unix: zone Local
      [] impl \in {"dateInZone", "htmlDateInZone"} ->
             {"env"}                                 \* time.LoadLocation
      [] impl \in {"os.Getenv", "os.ExpandEnv"} -> {"env"}
      [] impl = "getHostByName" -> {"network"}       \* net.LookupIP
      [] impl = "encryptAES" -> {"random"}           \* crypto/rand.Reader
      [] impl \in {"keys", "values"} ->              \* for ... range dict
             IF n >= 2 THEN {"maporder"} ELSE {}
      [] OTHER -> {}

\* The text a call prints: fixed by the function, its argument and the
\* parts of the world the function reads.
Call(impl, n, world) ==
    [ impl |-> impl, arg |-> n,
      seen |-> [ r \in ImplReads(impl, n) |-> world[r] ] ]

\* The table the renderer of the chosen mode is given.
HermeticFuncs(html) ==
    IF html THEN HermeticHtmlFuncMap ELSE HermeticTxtFuncMap

InitHermetic ==
    /\ mode = "hermetic"
    /\ pc = "start"
    /\ ctx = <<>>
    /\ htmlMode \in BOOLEAN
    /\ TmplIdle
    /\ DirIdle
    /\ fn \in DOMAIN HermeticFuncs(htmlMode)
    /\ arg \in 0..MaxArgLen
    /\ world1 = RefWorld
    /\ world2 \in Worlds
    /\ out1 = <<>>
    /\ out2 = <<>>
    /\ MergeIdle
    /\ SliceIdle
    /\ CallIdle
    /\ CopyIdle

\* The first run renders {{ fn arg }}.
RenderFirst ==
    /\ mode = "hermetic"
    /\ pc = "start"
    /\ out1' = Call(HermeticFuncs(htmlMode)[fn], arg, world1)
    /\ pc' = "first"
    /\ UNCHANGED <<mode, ctx, htmlMode, tmplVars, dirVars, fn, arg, world1,
                   world2, out2, mergeVars, sliceVars, callVars,
                   copyVars>>

\* The second run renders the same template against the same context.
RenderSecond ==
    /\ mode = "hermetic"
    /\ pc = "first"
    /\ out2' = Call(HermeticFuncs(htmlMode)[fn], arg, world2)
    /\ pc' = "done"
    /\ UNCHANGED <<mode, ctx, htmlMode, tmplVars, dirVars, fn, arg, world1,
                   world2, out1, mergeVars, sliceVars, callVars,
                   copyVars>>

NextHermetic == RenderFirst \/ RenderSecond

SpecHermetic == InitHermetic /\ [][NextHermetic]_vars

\* C7: two renders of a template that calls only functions of the hermetic
\* table, against the same context, give the same output whatever the two
\* runs find outside themselves, and no function of the table reads the
\* clock, a random source, the environment, the network or the iteration
\* order of a map.
C7_HermeticDeterminism ==
    (mode = "hermetic" /\ pc = "done") =>
        /\ out1 = out2
        /\ ImplReads(HermeticFuncs(htmlMode)[fn], arg) = {}

\* The strict variant of an implementation bound to a name hermeticFuncMap
\* removes: mustDateModify does what dateModify does, mustToDate what
\* toDate does, and each returns the error the other drops.
StrictVariant(impl) ==
    CASE impl = "dateModify" -> "mustDateModify"
      [] impl = "toDate"     -> "mustToDate"
      [] OTHER               -> ""

\* The implementations hermeticFuncMap removes under some name.
RemovedImpls ==
    { genericFuncMap[n] : n \in nonHermetic \cap DOMAIN genericFuncMap }

\* C27: the exclusion of hermeticFuncMap is closed under aliases: a function
\* of the hermetic table is bound neither to an implementation that was
\* removed under another name nor to the strict variant of one; and the
\* hermetic table is part of the full table, with the same binding.
C27_HermeticClosedUnderAliases ==
    mode = "hermetic" =>
        /\ fn \in DOMAIN genericFuncMap
        /\ hermeticFuncMap[fn] = genericFuncMap[fn]
        /\ hermeticFuncMap[fn] \notin RemovedImpls
        /\ hermeticFuncMap[fn] \notin { StrictVariant(i) : i \in RemovedImpls }

----------------------------------------------------------------------------
(* SpecMerge: one call of merge.  A map[string]interface{} is a reference  *)
(* to a table, so the maps live in a heap and the arguments are            *)
(* references: two arguments can be the same map.  NIL is the nil map.     *)

MaxRefs == 2         \* maps in the heap
MaxSrcs == 2         \* most srcs of a call
MaxVal == 2          \* values are 1..MaxVal

MKeys == {"a", "b"}

Maps == UNION { [S -> 1..MaxVal] : S \in SUBSET MKeys }

NIL == 0

Refs == 1..MaxRefs

\* The map a reference stands for when it is read: a nil map reads as an
\* empty one.
Deref(h, r) == IF r = NIL THEN <<>> ELSE h[r]

\* for k, v := range src { dst[k] = v } with the assignments kept out.
MergeIntoKeep(m, src) ==
    [ k \in (DOMAIN m) \cup (DOMAIN src) |->
        IF k \in DOMAIN m THEN m[k] ELSE src[k] ]

\* for k, v := range src { dst[k] = v }, on the table m of dst.
MergeInto(m, src) ==
    [ k \in (DOMAIN m) \cup (DOMAIN src) |->
        IF k \in DOMAIN src THEN src[k] ELSE m[k] ]

\* merge(dst, srcs...): the heap it leaves and what it returns.  An
\* assignment to an entry of the nil map panics.
RECURSIVE merge(_, _, _)
merge(h, d, ss) ==
    IF ss = <<>>
    THEN [ heap |-> h, panic |-> FALSE, ref |-> d ]
    ELSE LET src == Deref(h, Head(ss))
         IN  IF DOMAIN src = {}
             THEN merge(h, d, Tail(ss))
             ELSE IF d = NIL
                  THEN [ heap |-> h, panic |-> TRUE, ref |-> NIL ]
                  ELSE merge([h EXCEPT ![d] = MergeInto(h[d], src)],
                             d, Tail(ss))

NoRet == [ panic |-> FALSE, ref |-> NIL ]

InitMerge ==
    /\ mode = "merge"
    /\ pc = "start"
    /\ ctx = <<>>
    /\ htmlMode = FALSE
    /\ TmplIdle
    /\ DirIdle
    /\ HermIdle
    /\ SliceIdle
    /\ CallIdle
    /\ CopyIdle
    /\ heap \in [Refs -> Maps]
    /\ heap0 = heap
    /\ dst \in Refs \cup {NIL}
    /\ srcs \in SeqsUpTo(Refs \cup {NIL}, MaxSrcs)
    /\ ret = NoRet

\* The call merge(dst, srcs...) of a template.
CallMerge ==
    /\ mode = "merge"
    /\ pc = "start"
    /\ LET r == merge(heap, dst, srcs)
       IN  /\ heap' = r.heap
           /\ ret' = [ panic |-> r.panic, ref |-> r.ref ]
    /\ pc' = "done"
    /\ UNCHANGED <<mode, ctx, htmlMode, tmplVars, dirVars, hermVars,
                   sliceVars, callVars, copyVars, heap0, dst, srcs>>

NextMerge == CallMerge

SpecMerge == InitMerge /\ [][NextMerge]_vars

MergeDone == mode = "merge" /\ pc = "done"

\* The arguments of the call, dst first.
MergeArgs == <<dst>> \o srcs

\* The right-most argument that holds key k when merge is called.
RightMost(k) ==
    CHOOSE i \in 1..Len(MergeArgs) :
        /\ k \in DOMAIN Deref(heap0, MergeArgs[i])
        /\ \A j \in (i+1)..Len(MergeArgs) :
               k \notin DOMAIN Deref(heap0, MergeArgs[j])

\* What the claim says of a call that is over.
MergeContract ==
    /\ ~ret.panic
    /\ ret.ref = dst
    /\ DOMAIN Deref(heap, dst) =
           UNION { DOMAIN Deref(heap0, MergeArgs[i]) :
                       i \in 1..Len(MergeArgs) }
    /\ \A k \in DOMAIN Deref(heap, dst) :
           Deref(heap, dst)[k] = Deref(heap0, MergeArgs[RightMost(k)])[k]
    /\ \A i \in 1..Len(srcs) :
           Deref(heap, srcs[i]) = Deref(heap0, srcs[i])

----------------------------------------------------------------------------
(* SpecSlice: one call of slice(list, indices...).  A value is a record    *)
(* of its reflect kind and, for a slice or an array, its elements.  An     *)
(* index is an interface{} value: an int, or a value toInt64 has no case   *)
(* for.                                                                    *)

MaxSeqLen == 3       \* longest list
MaxIdx == 4          \* indices are -MaxIdx..MaxIdx and the far ones below

FarIdx == {100, 200}

Elems == {1, 2}

ListKinds == {"slice", "array", "map"}

Lists == [ kind : ListKinds, elems : SeqsUpTo(Elems, MaxSeqLen) ]

IndexVals ==
    [ type : {"int"}, val : ((-MaxIdx)..MaxIdx) \cup FarIdx ]
        \cup { [ type |-> "nil", val |-> 0 ] }

\* The integers of the model are IntBits wide, in place of the 64 bits of
\* int64.
IntBits == 7

MaxInt == 2^(IntBits - 1) - 1
MinInt == -(2^(IntBits - 1))

\* The number a sequence of digits reads as.
RECURSIVE DecVal(_)
DecVal(ds) ==
    IF ds = <<>> THEN 0
    ELSE 10 * DecVal(SubSeq(ds, 1, Len(ds) - 1)) + DigitVal(ds[Len(ds)])

\* The value strconv.ParseInt(s, 10, 64) returns next to its error: 0 for
\* a syntax error, the nearest bound of the range for a literal out of it.
ParseInt(s) ==
    IF s = <<>> THEN 0
    ELSE LET neg == s[1] = "-"
             body == IF s[1] \in {"+", "-"} THEN Tail(s) ELSE s
         IN  IF body = <<>> \/ \E i \in 1..Len(body) : ~IsDigit(body[i])
             THEN 0
             ELSE IF neg
                  THEN (IF DecVal(body) > -MinInt THEN MinInt
                        ELSE -DecVal(body))
                  ELSE (IF DecVal(body) > MaxInt THEN MaxInt
                        ELSE DecVal(body))

\* toInt64(v): the value of an int, i of i, _ := strconv.ParseInt(s, 10, 64)
\* for a string, 0 in the default case.
toInt64(v) ==
    CASE v.type = "int" -> v.val
      [] v.type = "string" -> ParseInt(v.val)
      [] OTHER -> 0

\* toInt(v) == int(toInt64(v)), int being 64 bits wide.
toInt(v) == toInt64(v)

SlicePanic == [ status |-> "panic", kind |-> "", elems |-> <<>> ]
SliceNil == [ status |-> "ok", kind |-> "nil", elems |-> <<>> ]
SliceOk(k, e) == [ status |-> "ok", kind |-> k, elems |-> e ]

\* reflect.MakeSlice(l.Type(), 0, 0): panics unless the type is a slice
\* type.
MakeSlice(k) == IF k = "slice" THEN SliceOk("slice", <<>>) ELSE SlicePanic

\* l.Slice(start, end): an array held in an interface is not addressable,
\* and Value.Slice panics on it.
ValueSlice(l, start, end) ==
    IF l.kind = "slice"
    THEN SliceOk("slice", SubSeq(l.elems, start + 1, end))
    ELSE SlicePanic

slice(l, idx) ==
    IF l.kind \notin {"slice", "array"}
    THEN SliceNil
    ELSE
      LET length == Len(l.elems)
      IN  IF Len(idx) = 0
          THEN SliceOk(l.kind, l.elems)
          ELSE
            LET start0 == toInt(idx[1])
                start1 == IF start0 < 0 THEN length + start0 ELSE start0
                start == IF start1 < 0 THEN 0 ELSE start1
            IN  IF start >= length
                THEN MakeSlice(l.kind)
                ELSE
                  LET end0 == IF Len(idx) > 1
                              THEN LET e == toInt(idx[2])
                                   IN  IF e < 0 THEN length + e ELSE e
                              ELSE length
                      end == IF end0 > length THEN length ELSE end0
                  IN  IF end <= start
                      THEN MakeSlice(l.kind)
                      ELSE ValueSlice(l, start, end)

InitSlice ==
    /\ mode = "slice"
    /\ pc = "start"
    /\ ctx = <<>>
    /\ htmlMode = FALSE
    /\ TmplIdle
    /\ DirIdle
    /\ HermIdle
    /\ MergeIdle
    /\ CallIdle
    /\ CopyIdle
    /\ list \in Lists
    /\ indices \in SeqsUpTo(IndexVals, 2)
    /\ sres = <<>>

\* The call slice(list, indices...) of a template.
CallSlice ==
    /\ mode = "slice"
    /\ pc = "start"
    /\ sres' = slice(list, indices)
    /\ pc' = "done"
    /\ UNCHANGED <<mode, ctx, htmlMode, tmplVars, dirVars, hermVars,
                   mergeVars, callVars, copyVars, list, indices>>

NextSlice == CallSlice

SpecSlice == InitSlice /\ [][NextSlice]_vars

\* The Python slice seq[start:end].
PyClamp(i, n) ==
    IF i < 0 THEN (IF n + i < 0 THEN 0 ELSE n + i)
    ELSE (IF i > n THEN n ELSE i)

PySlice(seq, start, end) ==
    LET s == PyClamp(start, Len(seq))
        e == PyClamp(end, Len(seq))
    IN  IF s >= e THEN <<>> ELSE SubSeq(seq, s + 1, e)

\* A call slice(seq, start, end) on a sequence with integer indices is over.
SliceCase ==
    /\ mode = "slice"
    /\ pc = "done"
    /\ list.kind \in {"slice", "array"}
    /\ Len(indices) = 2
    /\ \A i \in 1..2 : indices[i].type = "int"

\* C10: slice(seq, start, end) is the Python slice seq[start:end] for every
\* sequence, of slice or of array kind, and all integers start and end, and
\* no input makes it fault.
C10_PythonSlice ==
    SliceCase =>
        /\ sres.status = "ok"
        /\ sres.elems = PySlice(list.elems, indices[1].val, indices[2].val)

----------------------------------------------------------------------------
(* SpecLib: one call of a function of the registry on arguments drawn from *)
(* bounded sets.  An interface{} value is a record of its dynamic kind and *)
(* its content: the elements of a slice, the entries of a map.  A call     *)
(* returns a value, returns an error, or panics.                           *)

MaxListLen == 3      \* longest list handed to a function of the registry

IntV(i) == [ kind |-> "int", val |-> i ]
StrV(t) == [ kind |-> "string", val |-> t ]
BoolV(b) == [ kind |-> "bool", val |-> b ]
NilV == [ kind |-> "nil", val |-> 0 ]
SliceV(e) == [ kind |-> "slice", val |-> e ]
MapV(m) == [ kind |-> "map", val |-> m ]

\* The empty map[string]interface{}.
NoEntries == [ k \in {} |-> NilV ]

Returned(v) == [ status |-> "ok", val |-> v ]
Failed(e) == [ status |-> "error", val |-> StrV(e) ]
Panicked == [ status |-> "panic", val |-> NilV ]

\* The dynamic types Go can hash, so that a value of them can be the key of
\* a map[interface{}]bool; indexing such a map with a slice or a map panics
\* ("hash of unhashable type").
Hashable(v) == v.kind \notin {"slice", "map"}

\* The loop of uniq over the elements not yet visited.
RECURSIVE uniqLoop(_, _, _)
uniqLoop(rest, seen, result) ==
    IF rest = <<>>
    THEN Returned(SliceV(result))
    ELSE LET val == Head(rest)
         IN  IF ~Hashable(val)
             THEN Panicked
             ELSE IF val \in seen
                  THEN uniqLoop(Tail(rest), seen, result)
                  ELSE uniqLoop(Tail(rest), seen \cup {val},
                                Append(result, val))

uniq(l) ==
    IF l.kind \notin {"slice", "array"}
    THEN Returned(NilV)
    ELSE uniqLoop(l.val, {}, <<>>)

\* The elements of the lists handed to uniq: scalars, sequences, mappings.
UniqElems ==
    { IntV(1), IntV(2), StrV("a"),
      SliceV(<<>>), SliceV(<<IntV(1)>>),
      MapV(NoEntries), MapV([ k \in {"a"} |-> IntV(1) ]) }

UniqInputs ==
    { <<SliceV(e)>> : e \in SeqsUpTo(UniqElems, MaxListLen) }
        \cup { <<IntV(1)>>, <<MapV(NoEntries)>> }

\* The call uniq(list) of a template.
CallUniq ==
    /\ mode = "lib"
    /\ pc = "start"
    /\ lfn = "uniq"
    /\ lres' = uniq(largs[1])
    /\ pc' = "done"
    /\ UNCHANGED <<mode, ctx, htmlMode, tmplVars, dirVars, hermVars,
                   mergeVars, sliceVars, copyVars, lfn, largs>>

LibDone(f) == mode = "lib" /\ pc = "done" /\ lfn = f

\* The elements of e without those structurally equal to an earlier one.
RECURSIVE Dedup(_)
Dedup(e) ==
    IF e = <<>> THEN <<>>
    ELSE LET d == Dedup(SubSeq(e, 1, Len(e) - 1))
             x == e[Len(e)]
         IN  IF x \in Range(d) THEN d ELSE Append(d, x)

\* C11: for every sequence, whose elements may be scalars, sequences or
\* mappings, uniq returns the elements with later structurally equal
\* duplicates removed, first occurrences in their order, and does not fault.
C11_UniqStructural ==
    (LibDone("uniq") /\ largs[1].kind = "slice") =>
        /\ lres.status = "ok"
        /\ lres.val.val = Dedup(largs[1].val)

----------------------------------------------------------------------------
(* dig *)

MaxDigLen == 3       \* longest path string handed to dig

\* strings.Split(ps, "."): the parts between the dots, empty ones included.
RECURSIVE SplitDotAcc(_, _, _)
SplitDotAcc(ps, cur, acc) ==
    IF ps = <<>> THEN Append(acc, cur)
    ELSE IF Head(ps) = "."
         THEN SplitDotAcc(Tail(ps), <<>>, Append(acc, cur))
         ELSE SplitDotAcc(Tail(ps), Append(cur, Head(ps)), acc)

SplitDot(ps) == SplitDotAcc(ps, <<>>, <<>>)

\* The loop of dig: cur is the map the next segment is looked up in.
RECURSIVE digLoop(_, _)
digLoop(paths, cur) ==
    IF paths = <<>>
    THEN Returned(MapV(cur))
    ELSE LET path == Head(paths)
         IN  IF path \in DOMAIN cur
             THEN LET val == cur[path]
                  IN  IF val.kind = "map"
                      THEN digLoop(Tail(paths), val.val)
                      ELSE Returned(val)
             ELSE Failed("key not found")

dig(ps, dict) == digLoop(SplitDot(ps), dict)

\* The keys of the maps handed to dig, as the characters they are made of.
DigKeys == { <<"a">>, <<"b">> }

DigLeaves == { IntV(1) }

DigInner ==
    { MapV(m) : m \in UNION { [S -> DigLeaves] : S \in SUBSET DigKeys } }

DigDicts == UNION { [S -> DigLeaves \cup DigInner] : S \in SUBSET DigKeys }

DigInputs ==
    SeqsUpTo({"a", "b", "."}, MaxDigLen) \X DigDicts

\* The call dig(ps, dict) of a template.
CallDig ==
    /\ mode = "lib"
    /\ pc = "start"
    /\ lfn = "dig"
    /\ lres' = dig(largs[1], largs[2])
    /\ pc' = "done"
    /\ UNCHANGED <<mode, ctx, htmlMode, tmplVars, dirVars, hermVars,
                   mergeVars, sliceVars, copyVars, lfn, largs>>

\* What the claim says dig gives for the segments segs looked up from cur:
\* every segment but the last has to resolve to a nested mapping.
RECURSIVE DigContract(_, _)
DigContract(segs, cur) ==
    IF Head(segs) \notin DOMAIN cur
    THEN Failed("key not found")
    ELSE IF Len(segs) = 1
         THEN Returned(cur[Head(segs)])
         ELSE IF cur[Head(segs)].kind = "map"
              THEN DigContract(Tail(segs), cur[Head(segs)].val)
              ELSE Failed("key not found")

\* C12: dig fails with a key-not-found error when a segment before the last
\* is missing or resolves to a value that is not a nested mapping; only the
\* last segment may resolve to a value of any kind, which is returned.
C12_DigIntermediateMustBeMap ==
    LibDone("dig") => lres = DigContract(SplitDot(largs[1]), largs[2])

----------------------------------------------------------------------------
(* SpecCopy: c := deepCopy(v), then one assignment through v or through c. *)
(* Slices and maps are references, so they live in a heap of objects; an   *)
(* element of a []interface{} or a map[string]interface{} is a scalar or   *)
(* the address of another object.                                          *)

MaxObjs == 3         \* objects of the value handed to deepCopy
MaxElems == 2        \* most elements of a slice of that value

RefV(a) == [ kind |-> "ref", val |-> a ]

SliceObj(e) == [ kind |-> "slice", val |-> e ]
MapObj(m) == [ kind |-> "map", val |-> m ]

\* What a pointer points to, and a struct: field name -> what it holds.
PtrObj(c) == [ kind |-> "ptr", val |-> <<c>> ]
StructObj(f) == [ kind |-> "struct", val |-> f ]

\* The nil slice, the nil map and the nil pointer.
NilSliceV == [ kind |-> "nilslice", val |-> 0 ]
NilMapV == [ kind |-> "nilmap", val |-> 0 ]
NilPtrV == [ kind |-> "nilptr", val |-> 0 ]

CopyKeys == <<"a", "b">>

\* The fields of the struct type of the model: F is exported, f is not.
StructFields == <<"F", "f">>

\* reflect.Value.CanSet for the field of a struct made with reflect.New:
\* only an exported field can be set.
CanSet(field) == field = "F"

\* The zero value the field of a new struct holds in place of c, the zero
\* value of the type of the field: 0 for a number, the nil slice, nil map
\* or nil pointer for a slice, a map or a pointer, and the nil interface
\* for a field of interface type that holds a struct.
ZeroOf(h, c) ==
    CASE c.kind = "int" -> [ kind |-> "int", val |-> 0 ]
      [] c.kind = "ref" ->
            ( CASE h[c.val].kind = "slice" -> NilSliceV
                [] h[c.val].kind = "map"   -> NilMapV
                [] h[c.val].kind = "ptr"   -> NilPtrV
                [] OTHER                   -> NilV )
      [] OTHER -> c

\* The keys of the map m (the fields of the struct m) in the order the
\* model visits them.
KeysOf(m) == SelectSeq(CopyKeys \o StructFields, LAMBDA k : k \in DOMAIN m)

\* The copy of the cell c: a scalar is returned as it is, a slice or a map
\* is built anew (reflect.MakeSlice, reflect.MakeMap) from the copies of
\* its elements.  Gives the heap with the new objects and the new cell.
RECURSIVE deepCopyValue(_, _)
RECURSIVE copyCells(_, _, _)
deepCopyValue(h, c) ==
    IF c.kind # "ref"
    THEN [ heap |-> h, cell |-> c ]
    ELSE LET o == h[c.val]
         IN  IF o.kind = "slice"
             THEN LET r == copyCells(h, o.val, <<>>)
                  IN  [ heap |-> Append(r.heap, SliceObj(r.cells)),
                        cell |-> RefV(Len(r.heap) + 1) ]
             ELSE IF o.kind = "ptr"
             THEN LET r == deepCopyValue(h, o.val[1])
                  IN  [ heap |-> Append(r.heap, PtrObj(r.cell)),
                        cell |-> RefV(Len(r.heap) + 1) ]
             ELSE IF o.kind = "struct"
             THEN LET ks == SelectSeq(KeysOf(o.val), CanSet)
                      r == copyCells(h, [ i \in 1..Len(ks) |-> o.val[ks[i]] ],
                                     <<>>)
                      m == [ k \in DOMAIN o.val |->
                               IF CanSet(k)
                               THEN r.cells[CHOOSE i \in 1..Len(ks) : ks[i] = k]
                               ELSE ZeroOf(h, o.val[k]) ]
                  IN  [ heap |-> Append(r.heap, StructObj(m)),
                        cell |-> RefV(Len(r.heap) + 1) ]
             ELSE LET ks == KeysOf(o.val)
                      r == copyCells(h, [ i \in 1..Len(ks) |-> o.val[ks[i]] ],
                                     <<>>)
                      m == [ k \in DOMAIN o.val |->
                               r.cells[CHOOSE i \in 1..Len(ks) : ks[i] = k] ]
                  IN  [ heap |-> Append(r.heap, MapObj(m)),
                        cell |-> RefV(Len(r.heap) + 1) ]

copyCells(h, cells, acc) ==
    IF cells = <<>>
    THEN [ heap |-> h, cells |-> acc ]
    ELSE LET r == deepCopyValue(h, Head(cells))
         IN  copyCells(r.heap, Tail(cells), Append(acc, r.cell))

\* A copy that builds the outermost object anew and shares what is in it.
deepCopyShallow(h, c) ==
    IF c.kind # "ref"
    THEN [ heap |-> h, cell |-> c ]
    ELSE [ heap |-> Append(h, h[c.val]), cell |-> RefV(Len(h) + 1) ]

deepCopy(h, c) == deepCopyValue(h, c)

\* The objects the cell c reaches in the heap h.
RECURSIVE Reach(_, _)
Reach(h, c) ==
    IF c.kind # "ref" THEN {}
    ELSE LET o == h[c.val]
             inner == { o.val[k] : k \in DOMAIN o.val }
         IN  {c.val} \cup UNION { Reach(h, x) : x \in inner }

\* The value the cell c stands for in the heap h, addresses left out.
RECURSIVE Abs(_, _)
Abs(h, c) ==
    IF c.kind # "ref" THEN c
    ELSE LET o == h[c.val]
         IN  [ kind |-> o.kind,
               val |-> [ k \in DOMAIN o.val |-> Abs(h, o.val[k]) ] ]

\* How deep the value of the cell c nests.
RECURSIVE Depth(_, _)
Depth(h, c) ==
    IF c.kind # "ref" THEN 0
    ELSE LET o == h[c.val]
             ds == { Depth(h, o.val[k]) : k \in DOMAIN o.val }
         IN  1 + (IF ds = {} THEN 0
                  ELSE CHOOSE d \in ds : \A e \in ds : e <= d)

\* The cells an object at address a can hold: a scalar or the address of
\* an object further on, so that the value has no cycle.
CellsAt(a) == { IntV(1) } \cup { RefV(b) : b \in (a + 1)..MaxObjs }

ObjsAt(a) ==
    { SliceObj(e) : e \in SeqsUpTo(CellsAt(a), MaxElems) }
        \cup { MapObj(m) : m \in UNION { [S -> CellsAt(a)] :
                                           S \in SUBSET {"a"} } }

\* The heaps of objects a..MaxObjs, as sequences.
RECURSIVE HeapsFrom(_)
HeapsFrom(a) ==
    IF a > MaxObjs THEN { <<>> }
    ELSE { <<o>> \o t : o \in ObjsAt(a), t \in HeapsFrom(a + 1) }

\* The cells of the object o in the order deepCopyValue visits them.
CellsOf(o) ==
    IF o.kind \in {"slice", "ptr"} THEN o.val
    ELSE LET ks == KeysOf(o.val) IN [ i \in 1..Len(ks) |-> o.val[ks[i]] ]

\* The addresses reached from the cells, in the order of the first visit.
RECURSIVE VisitOrder(_, _, _)
VisitOrder(h, cells, acc) ==
    IF cells = <<>> THEN acc
    ELSE LET c == Head(cells)
         IN  IF c.kind # "ref" \/ c.val \in Range(acc)
             THEN VisitOrder(h, Tail(cells), acc)
             ELSE VisitOrder(h, Tail(cells),
                             VisitOrder(h, CellsOf(h[c.val]),
                                        Append(acc, c.val)))

\* The heaps that hold the value handed to deepCopy and nothing else:
\* every object is reached from the first, and the objects are numbered
\* in the order they are visited (an address carries no meaning).
CopyHeaps(n) ==
    { h \in HeapsFrom(1) :
        VisitOrder(h, <<RefV(1)>>, <<>>) = [ i \in 1..n |-> i ] }

InitCopy ==
    /\ mode = "copy"
    /\ pc = "start"
    /\ ctx = <<>>
    /\ htmlMode = FALSE
    /\ TmplIdle
    /\ DirIdle
    /\ HermIdle
    /\ MergeIdle
    /\ SliceIdle
    /\ CallIdle
    /\ cheap \in CopyHeaps(MaxObjs)
    /\ orig = RefV(1)
    /\ copy = NilV
    /\ before = cheap
    /\ side = ""

\* c := deepCopy(v)
CallDeepCopy ==
    /\ mode \in {"copy", "copyeq"}
    /\ pc = "start"
    /\ LET r == deepCopy(cheap, orig)
       IN  /\ cheap' = r.heap
           /\ copy' = r.cell
           /\ before' = r.heap
    /\ pc' = "copied"
    /\ UNCHANGED <<mode, ctx, htmlMode, tmplVars, dirVars, hermVars,
                   mergeVars, sliceVars, callVars, orig, side>>

\* The assignments to the object o: an element of a slice is assigned,
\* a key of a map is inserted, assigned or deleted.
Assignments(o) ==
    IF o.kind = "slice"
    THEN { SliceObj([o.val EXCEPT ![i] = IntV(2)]) : i \in 1..Len(o.val) }
    ELSE { MapObj([ k \in (DOMAIN o.val) \cup {n} |->
                      IF k = n THEN IntV(2) ELSE o.val[k] ]) :
               n \in Range(CopyKeys) }
         \cup { MapObj([ k \in (DOMAIN o.val) \ {n} |-> o.val[k] ]) :
                    n \in DOMAIN o.val }

\* An assignment to an object reached from the root cell.
Mutate(root, name) ==
    /\ mode = "copy"
    /\ pc = "copied"
    /\ \E a \in Reach(cheap, root) :
         \E o \in Assignments(cheap[a]) :
            cheap' = [cheap EXCEPT ![a] = o]
    /\ before' = cheap
    /\ side' = name
    /\ pc' = "done"
    /\ UNCHANGED <<mode, ctx, htmlMode, tmplVars, dirVars, hermVars,
                   mergeVars, sliceVars, callVars, orig, copy>>

MutateCopy == Mutate(copy, "c")

MutateOrig == Mutate(orig, "v")

NextCopy == CallDeepCopy \/ MutateCopy \/ MutateOrig

SpecCopy == InitCopy /\ [][NextCopy]_vars

\* C13: after c = deepCopy(v), an assignment through c (an element, a key
\* inserted or deleted, at any nesting level) leaves v unchanged and an
\* assignment through v leaves c unchanged; and c is a copy of v.
C13_DeepCopyIsolation ==
    /\ (mode = "copy" /\ pc = "copied") =>
           Abs(cheap, copy) = Abs(cheap, orig)
    /\ (mode = "copy" /\ pc = "done" /\ side = "c") =>
           Abs(cheap, orig) = Abs(before, orig)
    /\ (mode = "copy" /\ pc = "done" /\ side = "v") =>
           Abs(cheap, copy) = Abs(before, copy)

\* A value nested to depth 3 whose copy was changed at the innermost level.
C13_Witness ==
    /\ mode = "copy"
    /\ pc = "done"
    /\ side = "c"
    /\ Depth(before, orig) >= 3
    /\ \E a \in Reach(cheap, copy) :
          /\ Depth(before, RefV(a)) = 1
          /\ cheap[a] # before[a]
    /\ Abs(cheap, copy) # Abs(cheap, orig)

----------------------------------------------------------------------------
(* SpecCopyEq: c := deepCopy(v) for a value of slices, maps, pointers and  *)
(* structs, with nil slices, nil maps and nil pointers in it               *)

MaxEqObjs == 2       \* objects of the value handed to deepCopy

\* What an element, a map value, a field or a pointer target can be at
\* address a: a number, a nil, or the address of an object further on.
EqCellsAt(a) ==
    { IntV(0), IntV(1), NilSliceV, NilMapV, NilPtrV }
        \cup { RefV(b) : b \in (a + 1)..MaxEqObjs }

EqObjsAt(a) ==
    { SliceObj(e) : e \in SeqsUpTo(EqCellsAt(a), 1) }
        \cup { MapObj(m) : m \in UNION { [S -> EqCellsAt(a)] :
                                           S \in SUBSET {"a"} } }
        \cup { PtrObj(c) : c \in EqCellsAt(a) }
        \cup { StructObj(f) : f \in [Range(StructFields) -> EqCellsAt(a)] }

RECURSIVE EqHeapsFrom(_)
EqHeapsFrom(a) ==
    IF a > MaxEqObjs THEN { <<>> }
    ELSE { <<o>> \o t : o \in EqObjsAt(a), t \in EqHeapsFrom(a + 1) }

\* The heaps that hold the value and nothing else, objects numbered in the
\* order they are visited.
EqHeaps(n) ==
    { h \in EqHeapsFrom(1) :
        VisitOrder(h, <<RefV(1)>>, <<>>) = [ i \in 1..n |-> i ] }

\* The value is a nil or a number, or it is the first object of a heap.
InitCopyEq ==
    /\ mode = "copyeq"
    /\ pc = "start"
    /\ ctx = <<>>
    /\ htmlMode = FALSE
    /\ TmplIdle
    /\ DirIdle
    /\ HermIdle
    /\ MergeIdle
    /\ SliceIdle
    /\ CallIdle
    /\ \/ cheap \in EqHeaps(MaxEqObjs) /\ orig = RefV(1)
       \/ cheap = <<>> /\ orig \in { NilV, IntV(1), NilSliceV, NilMapV, NilPtrV }
    /\ copy = NilV
    /\ before = cheap
    /\ side = ""

NextCopyEq == CallDeepCopy

SpecCopyEq == InitCopyEq /\ [][NextCopyEq]_vars

\* C29: deepCopy(v) is structurally equal to v (eq(v, deepCopy(v)), which
\* is reflect.DeepEqual) for scalars, slices, maps, pointers and structs,
\* structs with fields that are not exported included; a nil pointer, a nil
\* slice and a nil map are copied to a nil one.
C29_DeepCopyPreservesValue ==
    (mode = "copyeq" /\ pc = "copied") =>
        Abs(cheap, copy) = Abs(cheap, orig)

----------------------------------------------------------------------------
(* compact, mustCompact, first, mustFirst *)

\* empty(given), for the kinds of the model.
empty(given) ==
    CASE given.kind = "nil" -> TRUE
      [] given.kind = "slice" -> Len(given.val) = 0
      [] given.kind = "map" -> DOMAIN given.val = {}
      [] given.kind = "string" -> given.val = ""
      [] given.kind = "bool" -> ~given.val
      [] given.kind = "int" -> given.val = 0

\* compact(list): result is declared without a value and stays the nil
\* slice until an element is appended.
compact(l) ==
    IF l.kind \notin {"slice", "array"}
    THEN NilV
    ELSE LET result == SelectSeq(l.val, LAMBDA val : ~empty(val))
         IN  IF result = <<>> THEN NilV ELSE SliceV(result)

mustCompact(l) ==
    LET result == compact(l)
    IN  IF result = NilV
        THEN Failed("cannot compact")
        ELSE Returned(result)

first(l) ==
    IF l.kind \notin {"slice", "array"}
    THEN NilV
    ELSE IF Len(l.val) = 0 THEN NilV ELSE l.val[1]

mustFirst(l) ==
    LET result == first(l)
    IN  IF result = NilV
        THEN Failed("cannot get first element of empty list")
        ELSE Returned(result)

MustElems == { IntV(0), IntV(1), StrV(""), NilV, SliceV(<<>>) }

MustInputs ==
    { <<SliceV(e)>> : e \in SeqsUpTo(MustElems, MaxListLen) }
        \cup { <<IntV(1)>>, <<MapV(NoEntries)>> }

\* The call mustCompact(list) of a template.
CallMustCompact ==
    /\ mode = "lib"
    /\ pc = "start"
    /\ lfn = "mustCompact"
    /\ lres' = mustCompact(largs[1])
    /\ pc' = "done"
    /\ UNCHANGED <<mode, ctx, htmlMode, tmplVars, dirVars, hermVars,
                   mergeVars, sliceVars, copyVars, lfn, largs>>

\* The call mustFirst(list) of a template.
CallMustFirst ==
    /\ mode = "lib"
    /\ pc = "start"
    /\ lfn = "mustFirst"
    /\ lres' = mustFirst(largs[1])
    /\ pc' = "done"
    /\ UNCHANGED <<mode, ctx, htmlMode, tmplVars, dirVars, hermVars,
                   mergeVars, sliceVars, copyVars, lfn, largs>>

\* C14: mustCompact fails exactly when its argument is not a sequence, and
\* gives the compacted list for every sequence, an empty one or one of
\* empty elements included; mustFirst fails exactly when its argument is an
\* empty sequence or not a sequence, and gives the first element of every
\* sequence that is not empty.
C14_StrictVariants ==
    /\ LibDone("mustCompact") =>
         IF largs[1].kind = "slice"
         THEN /\ lres.status = "ok"
              /\ lres.val.val =
                     SelectSeq(largs[1].val, LAMBDA val : ~empty(val))
         ELSE lres.status = "error"
    /\ LibDone("mustFirst") =>
         IF largs[1].kind = "slice" /\ Len(largs[1].val) > 0
         THEN lres = Returned(largs[1].val[1])
         ELSE lres.status = "error"

----------------------------------------------------------------------------
(* chunk, mustChunk *)

MaxChunkLen == 5     \* longest list handed to chunk
MaxChunk == 4        \* largest size handed to chunk

\* A group that stops one element short of the end of the list.
ChunkEndShort(i, size, length) ==
    IF i + size >= length THEN length - 1 ELSE i + size

\* end := i + size; if end > length { end = length }
ChunkEnd(i, size, length) ==
    IF i + size > length THEN length ELSE i + size

\* for i := 0; i < length; i += size { ... result = append(result, chunk) }
RECURSIVE chunkLoop(_, _, _, _)
chunkLoop(elems, size, i, result) ==
    IF ~(i < Len(elems))
    THEN result
    ELSE LET end == ChunkEnd(i, size, Len(elems))
         IN  chunkLoop(elems, size, i + size,
                       Append(result, SliceV(SubSeq(elems, i + 1, end))))

\* chunk(size, list): result stays the nil slice until a group is appended.
chunk(size, l) ==
    IF l.kind \notin {"slice", "array"}
    THEN NilV
    ELSE IF size <= 0
         THEN NilV
         ELSE LET result == chunkLoop(l.val, size, 0, <<>>)
              IN  IF result = <<>> THEN NilV ELSE SliceV(result)

\* mustChunk returns chunk(size, list) and a nil error.
mustChunk(size, l) == Returned(chunk(size, l))

ChunkInputs ==
    ((-1)..MaxChunk) \X
        ({ SliceV(e) : e \in SeqsUpTo({IntV(1), IntV(2)}, MaxChunkLen) }
            \cup { IntV(1) })

\* The call chunk(size, list) of a template.
CallChunk ==
    /\ mode = "lib"
    /\ pc = "start"
    /\ lfn = "chunk"
    /\ lres' = Returned(chunk(largs[1], largs[2]))
    /\ pc' = "done"
    /\ UNCHANGED <<mode, ctx, htmlMode, tmplVars, dirVars, hermVars,
                   mergeVars, sliceVars, copyVars, lfn, largs>>

\* The call mustChunk(size, list) of a template.
CallMustChunk ==
    /\ mode = "lib"
    /\ pc = "start"
    /\ lfn = "mustChunk"
    /\ lres' = mustChunk(largs[1], largs[2])
    /\ pc' = "done"
    /\ UNCHANGED <<mode, ctx, htmlMode, tmplVars, dirVars, hermVars,
                   mergeVars, sliceVars, copyVars, lfn, largs>>

\* C15: for size <= 0, chunk returns nil (nothing) and mustChunk returns an
\* error.
C15_ChunkBadSize ==
    /\ (LibDone("chunk") /\ largs[1] <= 0) => lres = Returned(NilV)
    /\ (LibDone("mustChunk") /\ largs[1] <= 0) => lres.status = "error"

\* The groups of a result of chunk.
Groups(v) ==
    IF v = NilV THEN <<>> ELSE [ i \in 1..Len(v.val) |-> v.val[i].val ]

\* ceil(n / size)
CeilDiv(n, size) == (n + size - 1) \div size

\* A call of chunk with size >= 1 on a sequence is over.
ChunkCase ==
    /\ LibDone("chunk")
    /\ largs[1] >= 1
    /\ largs[2].kind = "slice"

\* C16: for size >= 1 and a sequence of length n, chunk returns ceil(n/size)
\* groups whose concatenation in order is the sequence; every group but the
\* last has exactly size elements, the last between 1 and size.
C16_ChunkPartition ==
    ChunkCase =>
        LET size == largs[1]
            seq == largs[2].val
            g == Groups(lres.val)
        IN  /\ lres.status = "ok"
            /\ Len(g) = CeilDiv(Len(seq), size)
            /\ Flatten(g) = seq
            /\ \A i \in 1..(Len(g) - 1) : Len(g[i]) = size
            /\ Len(g) > 0 =>
                   (Len(g[Len(g)]) >= 1 /\ Len(g[Len(g)]) <= size)

\* A list that does not divide evenly: the last group is shorter.
C16_Witness ==
    /\ ChunkCase
    /\ Len(Groups(lres.val)) >= 2
    /\ Len(Groups(lres.val)[Len(Groups(lres.val))]) < largs[1]

----------------------------------------------------------------------------
(* semverCompare.  A string is the sequence of its characters. *)

MaxVer == 2          \* major, minor and patch numbers are 0..MaxVer

IsLetter(ch) == ch \in {"a", "b"}

NoVersion == [ ok |-> FALSE, major |-> 0, minor |-> 0, patch |-> 0,
               pre |-> <<>> ]

Version(ma, mi, pa, pre) ==
    [ ok |-> TRUE, major |-> ma, minor |-> mi, patch |-> pa, pre |-> pre ]

\* The parser of golang.org/x/mod/semver, for numbers of one digit and
\* versions without build metadata: vMAJOR[.MINOR[.PATCH[-PRERELEASE]]].
ParseVer(s) ==
    IF Len(s) < 2 \/ s[1] # "v" THEN NoVersion
    ELSE IF ~IsDigit(s[2]) THEN NoVersion
    ELSE IF Len(s) = 2 THEN Version(DigitVal(s[2]), 0, 0, <<>>)
    ELSE IF Len(s) < 4 \/ s[3] # "." THEN NoVersion
    ELSE IF ~IsDigit(s[4]) THEN NoVersion
    ELSE IF Len(s) = 4 THEN Version(DigitVal(s[2]), DigitVal(s[4]), 0, <<>>)
    ELSE IF Len(s) < 6 \/ s[5] # "." THEN NoVersion
    ELSE IF ~IsDigit(s[6]) THEN NoVersion
    ELSE IF Len(s) = 6
         THEN Version(DigitVal(s[2]), DigitVal(s[4]), DigitVal(s[6]), <<>>)
    ELSE IF Len(s) < 8 \/ s[7] # "-" THEN NoVersion
    ELSE IF \E i \in 8..Len(s) : ~(IsLetter(s[i]) \/ IsDigit(s[i]))
         THEN NoVersion
    ELSE Version(DigitVal(s[2]), DigitVal(s[4]), DigitVal(s[6]),
                 SubSeq(s, 8, Len(s)))

CompareInt(x, y) == IF x = y THEN 0 ELSE IF x < y THEN -1 ELSE 1

\* comparePrerelease: a version without a prerelease is the later one;
\* the identifiers of the model are single letters, compared as text.
ComparePrerelease(x, y) ==
    IF x = y THEN 0
    ELSE IF x = <<>> THEN 1
    ELSE IF y = <<>> THEN -1
    ELSE IF x[1] = "a" THEN -1 ELSE 1

\* semver.Compare(v, w): an invalid version is less than a valid one and
\* equal to another invalid one.
Compare(v, w) ==
    LET pv == ParseVer(v)
        pw == ParseVer(w)
    IN  IF ~pv.ok /\ ~pw.ok THEN 0
        ELSE IF ~pv.ok THEN -1
        ELSE IF ~pw.ok THEN 1
        ELSE IF pv.major # pw.major THEN CompareInt(pv.major, pw.major)
        ELSE IF pv.minor # pw.minor THEN CompareInt(pv.minor, pw.minor)
        ELSE IF pv.patch # pw.patch THEN CompareInt(pv.patch, pw.patch)
        ELSE ComparePrerelease(pv.pre, pw.pre)

\* semver.Major(v): "" for an invalid version.
Major(v) == IF ParseVer(v).ok THEN SubSeq(v, 1, 2) ELSE <<>>

\* strings.HasPrefix(s, "v") guarding the "v" + s of semverCompare.
WithV(s) == IF Len(s) >= 1 /\ s[1] = "v" THEN s ELSE <<"v">> \o s

\* strings.Contains(s, "%!")
ContainsBadPrintf(s) ==
    \E i \in 1..(Len(s) - 1) : s[i] = "%" /\ s[i + 1] = "!"

\* A caret that does not look at the major versions.
ApplyOperatorAnyMajor(operator, result, constraintMajor, versionMajor) ==
    CASE operator \in { <<"=">>, <<"=", "=">> } -> result = 0
      [] operator \in { <<"!", "=">>, <<"<", ">">> } -> result # 0
      [] operator = <<"<">> -> result < 0
      [] operator = <<"<", "=">> -> result <= 0
      [] operator = <<">">> -> result > 0
      [] operator = <<">", "=">> -> result >= 0
      [] operator = <<"^">> -> result >= 0
      [] OTHER -> FALSE

\* The switch on the operator at the end of semverCompare.
ApplyOperator(operator, result, constraintMajor, versionMajor) ==
    CASE operator \in { <<"=">>, <<"=", "=">> } -> result = 0
      [] operator \in { <<"!", "=">>, <<"<", ">">> } -> result # 0
      [] operator = <<"<">> -> result < 0
      [] operator = <<"<", "=">> -> result <= 0
      [] operator = <<">">> -> result > 0
      [] operator = <<">", "=">> -> result >= 0
      [] operator = <<"^">> ->
             IF constraintMajor # versionMajor THEN FALSE ELSE result >= 0
      [] OTHER -> FALSE

TwoCharOperators == { <<">", "=">>, <<"<", "=">>, <<"=", "=">>, <<"!", "=">> }

semverCompare(constraint, version) ==
    IF Len(constraint) = 0 THEN FALSE
    ELSE IF ContainsBadPrintf(constraint) THEN FALSE
    ELSE
      LET two == Len(constraint) >= 2
                    /\ SubSeq(constraint, 1, 2) \in TwoCharOperators
          operator0 == IF two THEN SubSeq(constraint, 1, 2)
                       ELSE SubSeq(constraint, 1, 1)
          constraintVersion0 ==
              IF two THEN SubSeq(constraint, 3, Len(constraint))
              ELSE SubSeq(constraint, 2, Len(constraint))
          operator == IF constraintVersion0 = <<>> THEN <<"=">>
                      ELSE operator0
          constraintVersion == IF constraintVersion0 = <<>> THEN constraint
                               ELSE constraintVersion0
          versionWithV == WithV(version)
          constraintVersionWithV == WithV(constraintVersion)
          result == Compare(versionWithV, constraintVersionWithV)
      IN  ApplyOperator(operator, result, Major(constraintVersionWithV),
                        Major(versionWithV))

\* The versions of the inputs: MAJOR.MINOR.PATCH with or without a
\* prerelease, and the short form MAJOR.
Pres == { <<>>, <<"a">>, <<"b">> }

FullVersions ==
    [ major : 0..MaxVer, minor : 0..MaxVer, patch : 0..MaxVer, pre : Pres,
      short : {FALSE} ]

ShortVersions ==
    [ major : 0..MaxVer, minor : {0}, patch : {0}, pre : {<<>>},
      short : {TRUE} ]

\* The versions the claim names.
NamedVersions ==
    { [ major |-> 1, minor |-> 3, patch |-> 5, pre |-> <<>>,
        short |-> FALSE ] }

Versions == FullVersions \cup ShortVersions \cup NamedVersions

\* The text of a version.
FormatVer(r) ==
    IF r.short THEN << DigitChars[r.major + 1] >>
    ELSE << DigitChars[r.major + 1], ".", DigitChars[r.minor + 1], ".",
            DigitChars[r.patch + 1] >>
         \o (IF r.pre = <<>> THEN <<>> ELSE <<"-">> \o r.pre)

\* The operators of a constraint; <<>> is a constraint with no operator.
Operators ==
    { <<>>, <<"=">>, <<"=", "=">>, <<"!", "=">>, <<"<">>, <<"<", "=">>,
      <<">">>, <<">", "=">>, <<"^">> }

\* constraint and version, then what they were made of.
SemverInputs(ops) ==
    { << op \o FormatVer(c), FormatVer(v), op, c, v >> :
        op \in ops, c \in Versions, v \in Versions }

\* The call semverCompare(constraint, version) of a template.
CallSemverCompare ==
    /\ mode = "lib"
    /\ pc = "start"
    /\ lfn = "semverCompare"
    /\ lres' = Returned(BoolV(semverCompare(largs[1], largs[2])))
    /\ pc' = "done"
    /\ UNCHANGED <<mode, ctx, htmlMode, tmplVars, dirVars, hermVars,
                   mergeVars, sliceVars, copyVars, lfn, largs>>

\* Semver precedence of the version v against the version c: -1, 0 or 1.
Precedence(v, c) ==
    IF v.major # c.major THEN CompareInt(v.major, c.major)
    ELSE IF v.minor # c.minor THEN CompareInt(v.minor, c.minor)
    ELSE IF v.patch # c.patch THEN CompareInt(v.patch, c.patch)
    ELSE IF v.pre = c.pre THEN 0
    ELSE IF v.pre = <<>> THEN 1
    ELSE IF c.pre = <<>> THEN -1
    ELSE IF v.pre = <<"a">> THEN -1 ELSE 1

\* Whether v stands in relation op to c.
Related(op, v, c) ==
    CASE op \in { <<"=">>, <<"=", "=">> } -> Precedence(v, c) = 0
      [] op = <<"!", "=">> -> Precedence(v, c) # 0
      [] op = <<"<">> -> Precedence(v, c) < 0
      [] op = <<"<", "=">> -> Precedence(v, c) <= 0
      [] op = <<">">> -> Precedence(v, c) > 0
      [] op = <<">", "=">> -> Precedence(v, c) >= 0
      [] op = <<"^">> -> v.major = c.major /\ Precedence(v, c) >= 0

\* C17: a constraint without an operator is an equality: semverCompare(c, v)
\* is true when v is the version c and false when v differs from c by
\* precedence.
C17_ImplicitEquality ==
    (LibDone("semverCompare") /\ largs[3] = <<>>) =>
        lres.val.val = (Precedence(largs[5], largs[4]) = 0)

\* C18: semverCompare(op + c, v) is true exactly when v stands in relation
\* op to c under semver precedence, for =, ==, !=, <, <=, >, >=, and for ^
\* exactly when the majors are equal and v >= c.
C18_OperatorSemantics ==
    (LibDone("semverCompare") /\ largs[3] # <<>>) =>
        lres.val.val = Related(largs[3], largs[5], largs[4])

\* semverCompare("^1.2.0", "1.3.5") has returned true.
C18_Witness ==
    /\ LibDone("semverCompare")
    /\ largs[1] = <<"^", "1", ".", "2", ".", "0">>
    /\ largs[2] = <<"1", ".", "3", ".", "5">>
    /\ lres.val.val = TRUE

----------------------------------------------------------------------------
(* toInt64 *)

MaxDigits == 3       \* longest string handed to toInt64

\* The values handed to toInt64: strings, ints and kinds it has no case
\* for.
ToIntInputs ==
    { << [ type |-> "string", val |-> t ] >> :
          t \in SeqsUpTo({"0", "1", "9", "-", "+", "a"}, MaxDigits) }
      \cup { << [ type |-> "int", val |-> i ] >> : i \in {MinInt, -1, 0, MaxInt} }
      \cup { << [ type |-> k, val |-> 0 ] >> :
                k \in {"bool", "slice", "map", "nil"} }

\* The call toInt64(v) of a template (int64, atoi).
CallToInt64 ==
    /\ mode = "lib"
    /\ pc = "start"
    /\ lfn = "toInt64"
    /\ lres' = Returned(IntV(toInt64(largs[1])))
    /\ pc' = "done"
    /\ UNCHANGED <<mode, ctx, htmlMode, tmplVars, dirVars, hermVars,
                   mergeVars, sliceVars, copyVars, lfn, largs>>

\* A base-10 literal: an optional sign, then digits.
IsLiteral(t) ==
    LET body == IF t # <<>> /\ t[1] \in {"+", "-"} THEN Tail(t) ELSE t
    IN  body # <<>> /\ \A i \in 1..Len(body) : IsDigit(body[i])

\* The number a literal denotes.
LiteralVal(t) ==
    IF t[1] = "-" THEN -DecVal(Tail(t))
    ELSE IF t[1] = "+" THEN DecVal(Tail(t)) ELSE DecVal(t)

\* A literal of a signed integer of the width of the model.
ValidLiteral(t) ==
    IsLiteral(t) /\ LiteralVal(t) >= MinInt /\ LiteralVal(t) <= MaxInt

\* C19: toInt64 never fails, and returns 0 for every string that is not a
\* valid base-10 literal of a signed integer of its width, literals out of
\* the range included, and for every kind it does not support.
C19_ToInt64ZeroOnInvalid ==
    LibDone("toInt64") =>
        /\ lres.status = "ok"
        /\ (largs[1].type = "string" /\ ~ValidLiteral(largs[1].val)) =>
               lres.val.val = 0
        /\ largs[1].type \in {"bool", "slice", "map", "nil"} =>
               lres.val.val = 0

----------------------------------------------------------------------------
(* semver (semverFunc) *)

\* strings.Index(s, ch) for a single character, counted from 1; 0 when s
\* does not hold it.
IndexOf(s, ch) ==
    LET I == { i \in 1..Len(s) : s[i] = ch }
    IN  IF I = {} THEN 0 ELSE CHOOSE i \in I : \A j \in I : i <= j

\* The number of leading digits of s.
RECURSIVE DigitRun(_)
DigitRun(s) ==
    IF s = <<>> \/ ~IsDigit(Head(s)) THEN 0 ELSE 1 + DigitRun(Tail(s))

\* parseInt of golang.org/x/mod/semver: the length of the number s starts
\* with, 0 when there is none or it has a leading zero.
ParseIntLen(s) ==
    LET n == DigitRun(s)
    IN  IF n > 1 /\ s[1] = "0" THEN 0 ELSE n

\* isIdentChar
IsIdentChar(ch) == IsDigit(ch) \/ IsLetter(ch) \/ ch = "-"

\* The identifiers of a prerelease or of build metadata: separated by ".",
\* none empty; a numeric identifier of a prerelease has no leading zero.
ValidIdents(t, numeric) ==
    \A p \in Range(SplitDot(t)) :
        /\ p # <<>>
        /\ \A i \in 1..Len(p) : IsIdentChar(p[i])
        /\ (numeric /\ Len(p) > 1 /\ DigitRun(p) = Len(p)) => p[1] # "0"

\* What may follow the patch number: -PRERELEASE, +BUILD, both or nothing.
ValidTail(r) ==
    IF r = <<>> THEN TRUE
    ELSE IF r[1] = "-"
         THEN LET plus == IndexOf(r, "+")
              IN  IF plus = 0 THEN ValidIdents(Tail(r), TRUE)
                  ELSE /\ ValidIdents(SubSeq(r, 2, plus - 1), TRUE)
                       /\ ValidIdents(SubSeq(r, plus + 1, Len(r)), FALSE)
    ELSE IF r[1] = "+" THEN ValidIdents(Tail(r), FALSE)
    ELSE FALSE

\* The text after the number s starts with.
AfterInt(s) == SubSeq(s, ParseIntLen(s) + 1, Len(s))

\* semver.IsValid: vMAJOR[.MINOR[.PATCH[-PRERELEASE][+BUILD]]]
IsValid(s) ==
    IF s = <<>> \/ s[1] # "v" \/ ParseIntLen(Tail(s)) = 0 THEN FALSE
    ELSE LET r1 == AfterInt(Tail(s))
         IN  IF r1 = <<>> THEN TRUE
             ELSE IF r1[1] # "." \/ ParseIntLen(Tail(r1)) = 0 THEN FALSE
             ELSE LET r2 == AfterInt(Tail(r1))
                  IN  IF r2 = <<>> THEN TRUE
                      ELSE IF r2[1] # "." \/ ParseIntLen(Tail(r2)) = 0
                           THEN FALSE
                      ELSE ValidTail(AfterInt(Tail(r2)))

\* strings.TrimPrefix(s, "v")
TrimV(s) == IF s # <<>> /\ s[1] = "v" THEN Tail(s) ELSE s

\* strconv.Atoi with the error dropped.
Atoi(s) == ParseInt(s)

\* The map semverFunc returns.
SemverMap(major, minor, patch, prerel, build) ==
    [ Major |-> Atoi(major), Minor |-> Atoi(minor), Patch |-> Atoi(patch),
      Prerelease |-> prerel, Metadata |-> build ]

\* semverFunc(version): nil for a version that is not valid, otherwise the
\* map made from the first three parts of the text between dots.
semverFunc(version) ==
    IF ~IsValid(WithV(version)) THEN NilV
    ELSE LET parts == SplitDot(TrimV(version))
         IN  IF Len(parts) < 3 THEN NilV
             ELSE LET patchPart == parts[3]
                      idx == IndexOf(patchPart, "-")
                      rest == SubSeq(patchPart, idx + 1, Len(patchPart))
                      buildIdx == IndexOf(rest, "+")
                      plusIdx == IndexOf(patchPart, "+")
                  IN  IF idx > 0
                      THEN IF buildIdx > 0
                           THEN SemverMap(parts[1], parts[2],
                                          SubSeq(patchPart, 1, idx - 1),
                                          SubSeq(rest, 1, buildIdx - 1),
                                          SubSeq(rest, buildIdx + 1, Len(rest)))
                           ELSE SemverMap(parts[1], parts[2],
                                          SubSeq(patchPart, 1, idx - 1),
                                          rest, <<>>)
                      ELSE IF plusIdx > 0
                      THEN SemverMap(parts[1], parts[2],
                                     SubSeq(patchPart, 1, plusIdx - 1), <<>>,
                                     SubSeq(patchPart, plusIdx + 1,
                                            Len(patchPart)))
                      ELSE SemverMap(parts[1], parts[2], patchPart, <<>>, <<>>)

\* The prereleases and the build metadata of the inputs.
PreTexts == { <<>>, <<"a">>, <<"a", ".", "1">>, <<"a", "-", "b">> }
BuildTexts == { <<>>, <<"b">>, <<"a", "-", "b">>, <<"a", ".", "b">> }

\* MAJOR.MINOR.PATCH[-PRERELEASE][+BUILD], with or without a leading v.
SemverTexts ==
    { (IF v THEN <<"v">> ELSE <<>>)
        \o << DigitChars[ma + 1], ".", DigitChars[mi + 1], ".",
              DigitChars[pa + 1] >>
        \o (IF pre = <<>> THEN <<>> ELSE <<"-">> \o pre)
        \o (IF bld = <<>> THEN <<>> ELSE <<"+">> \o bld) :
        v \in BOOLEAN, ma \in 0..MaxVer, mi \in 0..MaxVer, pa \in 0..MaxVer,
        pre \in PreTexts, bld \in BuildTexts }

SemverFuncInputs == { <<t>> : t \in SemverTexts }

\* The call semver(version) of a template.
CallSemver ==
    /\ mode = "lib"
    /\ pc = "start"
    /\ lfn = "semver"
    /\ lres' = semverFunc(largs[1])
    /\ pc' = "done"
    /\ UNCHANGED <<mode, ctx, htmlMode, tmplVars, dirVars, hermVars,
                   mergeVars, sliceVars, copyVars, lfn, largs>>

\* Major.Minor.Patch[-Prerelease][+Metadata] of the map m.
FormatSemver(m) ==
    << DigitChars[m.Major + 1], ".", DigitChars[m.Minor + 1], ".",
       DigitChars[m.Patch + 1] >>
    \o (IF m.Prerelease = <<>> THEN <<>> ELSE <<"-">> \o m.Prerelease)
    \o (IF m.Metadata = <<>> THEN <<>> ELSE <<"+">> \o m.Metadata)

\* C30: for every valid semantic version v, with or without a leading v,
\* with a dotted prerelease or build metadata that holds "-" or ".",
\* semver(v) returns a map, and Major.Minor.Patch[-Prerelease][+Metadata]
\* of that map is v without its leading v.
C30_SemverRoundTrip ==
    (LibDone("semver") /\ IsValid(WithV(largs[1]))
                       /\ Len(SplitDot(largs[1])) >= 3) =>
        /\ lres # NilV
        /\ FormatSemver(lres) = TrimV(largs[1])

----------------------------------------------------------------------------
(* SpecLib, assembled *)

LibFns == {"uniq", "dig", "mustCompact", "mustFirst", "chunk", "mustChunk",
           "semverCompare", "toInt64", "semver"}

LibInputs(f) ==
    CASE f = "uniq" -> UniqInputs
      [] f = "dig" -> DigInputs
      [] f = "mustCompact" -> MustInputs
      [] f = "mustFirst" -> MustInputs
      [] f = "chunk" -> ChunkInputs
      [] f = "mustChunk" -> ChunkInputs
      [] f = "semverCompare" -> SemverInputs(Operators)
      [] f = "toInt64" -> ToIntInputs
      [] f = "semver" -> SemverFuncInputs

InitLib ==
    /\ mode = "lib"
    /\ pc = "start"
    /\ ctx = <<>>
    /\ htmlMode = FALSE
    /\ TmplIdle
    /\ DirIdle
    /\ HermIdle
    /\ MergeIdle
    /\ SliceIdle
    /\ CopyIdle
    /\ lfn \in LibFns
    /\ largs \in LibInputs(lfn)
    /\ lres = <<>>

NextLib ==
    \/ CallUniq
    \/ CallDig
    \/ CallMustCompact
    \/ CallMustFirst
    \/ CallChunk
    \/ CallMustChunk
    \/ CallSemverCompare
    \/ CallToInt64
    \/ CallSemver

SpecLib == InitLib /\ [][NextLib]_vars

====
